---- MODULE Spec2Model ----
(***************************************************************************)
(* Model of the multi-stage book processing engine: the durable store      *)
(* (item status, status history, processing-task rows, download queue),    *)
(* the task scheduler (heap, active map, dispatcher loop, handler threads, *)
(* retry handling), the stage contract as run by the scheduler             *)
(* (BaseStage.execute_with_session), the state manager (transition         *)
(* validation, implicit pre-queue transition, next-stage scheduling,       *)
(* reconciliation helpers) and the driver (run_once / daemon feeder).      *)
(***************************************************************************)
EXTENDS Integers, Sequences, FiniteSets, TLC

\* ---------------------------------------------------------------- bounds
NumBooks == 2          \* largest wish list (items in the store) tried
MaxTasks == 6          \* processing-task rows ever created
MaxSlots == 2          \* largest max_concurrent_tasks configuration tried
MaxFaults == 1         \* failures the outside world (network, remote services) injects
MaxSyncs == 1          \* periodic wish-list syncs of a daemon run
NumPipelineBooks == 1  \* largest wish list tried with the pipeline manager's loop running
MaxRemaining == 2      \* largest remaining count the quota source reports
MaxConsume == 2        \* largest count passed to consume_quota
NumDownloadWorkers == 2  \* threads inside process_book at the same time
NumStopBooks == 1      \* largest wish list tried with a stop of the scheduler
MaxTransitions == 1    \* history rows per item up to which transition_status is called
MaxCleanupTasks == 2   \* task rows scheduled before a cleanup pass
MaxResults == 3        \* search results saved for one item
NumSearchBooks == 1    \* items whose search results are ranked
MaxMonitorHistory == 3 \* history rows per item up to which the state monitor passes

\* ------------------------------------------------------ program constants
DefaultMaxRetries == 3     \* schedule_task(max_retries=3)
NextStageDelay == 3        \* _schedule_next_stage_if_needed(delay_seconds=3)
RetryBaseDelay == 30       \* 30 * 2**(retry_count-1)
RetryMaxDelay == 300       \* min(300, ...)

Stages == {"data_collection", "search", "download", "upload"}

\* db.models.BookStatus
BookStatus ==
  {"NEW", "DETAIL_FETCHING", "DETAIL_COMPLETE",
   "SEARCH_QUEUED", "SEARCH_ACTIVE", "SEARCH_COMPLETE",
   "SEARCH_COMPLETE_QUOTA_EXHAUSTED", "SEARCH_NO_RESULTS",
   "DOWNLOAD_QUEUED", "DOWNLOAD_ACTIVE", "DOWNLOAD_COMPLETE", "DOWNLOAD_FAILED",
   "UPLOAD_QUEUED", "UPLOAD_ACTIVE", "UPLOAD_COMPLETE", "UPLOAD_FAILED",
   "COMPLETED", "SKIPPED_EXISTS", "FAILED_PERMANENT"}

\* BookStateManager.VALID_TRANSITIONS
VALID_TRANSITIONS ==
  [s \in BookStatus |->
    CASE s = "NEW" -> {"DETAIL_FETCHING", "DETAIL_COMPLETE", "SKIPPED_EXISTS", "FAILED_PERMANENT"}
      [] s = "DETAIL_FETCHING" -> {"DETAIL_COMPLETE", "FAILED_PERMANENT", "NEW"}
      [] s = "DETAIL_COMPLETE" -> {"SEARCH_QUEUED", "SKIPPED_EXISTS", "FAILED_PERMANENT"}
      [] s = "SEARCH_QUEUED" -> {"SEARCH_ACTIVE", "SKIPPED_EXISTS", "FAILED_PERMANENT"}
      [] s = "SEARCH_ACTIVE" -> {"SEARCH_COMPLETE", "SEARCH_NO_RESULTS", "SKIPPED_EXISTS",
                                 "FAILED_PERMANENT", "SEARCH_QUEUED"}
      [] s = "SEARCH_COMPLETE" -> {"DOWNLOAD_QUEUED", "DOWNLOAD_ACTIVE",
                                   "SEARCH_COMPLETE_QUOTA_EXHAUSTED", "FAILED_PERMANENT"}
      [] s = "SEARCH_COMPLETE_QUOTA_EXHAUSTED" -> {"DOWNLOAD_QUEUED", "DOWNLOAD_ACTIVE", "FAILED_PERMANENT"}
      [] s = "SEARCH_NO_RESULTS" -> {"SEARCH_QUEUED", "FAILED_PERMANENT"}
      [] s = "DOWNLOAD_QUEUED" -> {"DOWNLOAD_ACTIVE", "FAILED_PERMANENT", "SEARCH_COMPLETE"}
      [] s = "DOWNLOAD_ACTIVE" -> {"DOWNLOAD_COMPLETE", "DOWNLOAD_FAILED", "FAILED_PERMANENT",
                                   "DOWNLOAD_QUEUED", "SEARCH_COMPLETE"}
      [] s = "DOWNLOAD_COMPLETE" -> {"UPLOAD_QUEUED", "COMPLETED", "FAILED_PERMANENT"}
      [] s = "DOWNLOAD_FAILED" -> {"DOWNLOAD_QUEUED", "FAILED_PERMANENT"}
      [] s = "UPLOAD_QUEUED" -> {"UPLOAD_ACTIVE", "FAILED_PERMANENT"}
      [] s = "UPLOAD_ACTIVE" -> {"UPLOAD_COMPLETE", "UPLOAD_FAILED", "FAILED_PERMANENT", "UPLOAD_QUEUED"}
      [] s = "UPLOAD_COMPLETE" -> {"COMPLETED"}
      [] s = "UPLOAD_FAILED" -> {"UPLOAD_QUEUED", "FAILED_PERMANENT"}
      [] s = "COMPLETED" -> {}
      [] s = "SKIPPED_EXISTS" -> {}
      [] s = "FAILED_PERMANENT" -> {"NEW", "SEARCH_QUEUED", "DOWNLOAD_QUEUED", "UPLOAD_QUEUED"}]

\* BookStateManager.is_valid_transition
is_valid_transition(from_status, to_status) ==
  to_status \in VALID_TRANSITIONS[from_status]

\* TaskScheduler._can_schedule_for_stage: stage_acceptable_statuses
stage_acceptable_statuses ==
  [g \in Stages |->
    CASE g = "data_collection" -> {"NEW", "DETAIL_FETCHING"}
      [] g = "search" -> {"DETAIL_COMPLETE", "SEARCH_QUEUED", "SEARCH_ACTIVE"}
      [] g = "download" -> {"SEARCH_COMPLETE", "SEARCH_COMPLETE_QUOTA_EXHAUSTED",
                            "DOWNLOAD_QUEUED", "DOWNLOAD_ACTIVE"}
      [] g = "upload" -> {"DOWNLOAD_COMPLETE", "UPLOAD_QUEUED", "UPLOAD_ACTIVE"}]

\* TaskScheduler._can_schedule_for_stage (the item always exists in the store)
_can_schedule_for_stage(status, stage) ==
  status \in stage_acceptable_statuses[stage]

\* BaseStage._get_active_status
_get_active_status ==
  [g \in Stages |->
    CASE g = "data_collection" -> "DETAIL_FETCHING"
      [] g = "search" -> "SEARCH_ACTIVE"
      [] g = "download" -> "DOWNLOAD_ACTIVE"
      [] g = "upload" -> "UPLOAD_ACTIVE"]

\* BookStateManager._schedule_next_stage_if_needed: next_stage_mapping
next_stage_mapping ==
  [s \in {"DETAIL_COMPLETE", "SEARCH_COMPLETE", "DOWNLOAD_COMPLETE"} |->
    CASE s = "DETAIL_COMPLETE" -> "search"
      [] s = "SEARCH_COMPLETE" -> "download"
      [] s = "DOWNLOAD_COMPLETE" -> "upload"]

\* BookStateManager._schedule_next_stage_if_needed: next_queued_status
next_queued_status ==
  [g \in {"search", "download", "upload"} |->
    CASE g = "search" -> "SEARCH_QUEUED"
      [] g = "download" -> "DOWNLOAD_QUEUED"
      [] g = "upload" -> "UPLOAD_QUEUED"]

Min(a, b) == IF a < b THEN a ELSE b

RECURSIVE Pow2(_)
Pow2(n) == IF n <= 0 THEN 1 ELSE 2 * Pow2(n - 1)


\* ------------------------------------------------------------------ state
VARIABLES
  bookStatus,                 \* DoubanBook.status as committed, per item id 1..n
  history,                    \* BookStatusHistory rows per item, commit order
  download_queue,             \* DownloadQueue row status per item ("none" = no row)
  tasks,                      \* ProcessingTask rows joined with the in-memory ScheduledTask
  task_queue,                 \* TaskScheduler._task_queue in pop order: [id, wait]
  active_tasks,               \* TaskScheduler._active_tasks (task ids)
  handlers,                   \* running handler threads: task id -> session-local state
  _calibre_exists,            \* SearchStage._calibre_exists (shared stage instance)
  _found_qualifying_results,  \* SearchStage._found_qualifying_results (shared)
  max_concurrent_tasks,       \* TaskScheduler.max_concurrent_tasks
  phase,                      \* position of the driver (run_once / run_daemon)
  faults,                     \* failures injected by the outside world so far
  syncs,                      \* periodic syncs done by the daemon loop so far
  _running,                   \* PipelineManager._running
  _paused_stages,             \* PipelineManager._paused_stages: stage -> reason ("" = absent)
  _quota_check_counter,       \* PipelineManager._quota_check_counter
  _active_tasks,              \* PipelineManager._active_tasks: item id -> stage of its future
  _cached_quota,              \* QuotaManager._cached_quota: the cached DownloadQuota
  last_call,                  \* the last call of a manager's public method and what it returned
  download_workers,           \* threads inside DownloadStage.process_book: id -> local state
  zlibrary_books,             \* ZLibraryBook rows saved for the item being searched
  queue_item,                 \* the row the item's DownloadQueue entry points to (0 = no entry)
  in_process                  \* items whose pool worker is inside process() under BaseStage.execute

vars == <<bookStatus, history, download_queue, tasks, task_queue, active_tasks,
          handlers, _calibre_exists, _found_qualifying_results,
          max_concurrent_tasks, phase, faults, syncs,
          _running, _paused_stages, _quota_check_counter, _active_tasks, _cached_quota,
          last_call, download_workers, zlibrary_books, queue_item, in_process>>

storeVars == <<bookStatus, history, download_queue>>
stageVars == <<_calibre_exists, _found_qualifying_results>>
pmVars == <<_running, _paused_stages, _quota_check_counter, _active_tasks, _cached_quota>>
callVars == <<last_call, download_workers>>
\* the search stage's saved results and queue entry, and the pool workers'
\* positions
searchVars == <<zlibrary_books, queue_item, in_process>>
envVars == <<max_concurrent_tasks, phase, faults, syncs, pmVars, callVars, searchVars>>

\* the items of the store
Books == DOMAIN bookStatus

\* The DownloadQueue row that goes with an item the store already holds: the
\* search stage adds the row with its qualifying result, the download stage
\* marks it failed or completed.
stored_queue_row(status) ==
  CASE status \in {"SEARCH_COMPLETE", "SEARCH_COMPLETE_QUOTA_EXHAUSTED",
                   "DOWNLOAD_QUEUED", "DOWNLOAD_ACTIVE"} -> "queued"
    [] status = "DOWNLOAD_FAILED" -> "failed"
    [] status \in {"DOWNLOAD_COMPLETE", "UPLOAD_QUEUED", "UPLOAD_ACTIVE",
                   "UPLOAD_COMPLETE", "UPLOAD_FAILED", "COMPLETED"} -> "completed"
    [] OTHER -> "none"

\* The ProcessingTask rows that can go with an item the store already holds:
\* _execute_task marks the row active before the handler runs, so an item a
\* dead process left in an active status may still have its row in status
\* active; the in-memory heap and active map of that process are gone.
stored_task_rows(b, status) ==
  {<<>>} \cup
  {<<[book |-> b, stage |-> g, status |-> "active", retry_count |-> 0,
      max_retries |-> DefaultMaxRetries]>> : g \in {x \in Stages : _get_active_status[x] = status}}

\* QuotaManager._cached_quota is None
NoCachedQuota == [cached |-> FALSE, remaining_downloads |-> 0, expired |-> FALSE]

\* DownloadQuota(remaining_downloads, last_checked = now) as _fetch_quota_from_api
\* builds it; expired stands for is_expired(cache_minutes)
DownloadQuota(remaining) == [cached |-> TRUE, remaining_downloads |-> remaining, expired |-> FALSE]

\* no public method has been called
NoCall == [op |-> "none", count |-> 0, result |-> "none"]

\* the value a method returned, as last_call keeps it
returned(v) == IF v THEN "True" ELSE "False"

\* PipelineManager.__init__ (start() sets _running) and QuotaManager.__init__
\* (nothing cached yet); no thread is inside process_book.
PipelineManagerInit(running) ==
  /\ _running = running
  /\ _paused_stages = [g \in Stages |-> ""]
  /\ _quota_check_counter = 0
  /\ _active_tasks = [b \in {} |-> "download"]
  /\ _cached_quota = NoCachedQuota
  /\ last_call = NoCall
  /\ download_workers = [w \in {} |-> [pc |-> "start", loaded |-> 0]]
  /\ zlibrary_books = <<>>
  /\ queue_item = 0
  /\ in_process = {}

\* State at the start of DoubanZLibraryCalibrer.__init__.  The store outlives
\* the process: it holds the wish-list items, all NEW except possibly the
\* last one, which an earlier process may have left in any status.  The
\* number of items, the status of the last item and the concurrency limit (a
\* constructor argument) are inputs, and so is whether an item left in an
\* active status still has its task row.  History rows written by earlier
\* processes are not tracked.
Init ==
  /\ \E n \in 1..NumBooks, s \in BookStatus :
       /\ bookStatus = [b \in 1..n |-> IF b = n THEN s ELSE "NEW"]
       /\ history = [b \in 1..n |-> <<>>]
       /\ download_queue = [b \in 1..n |-> IF b = n THEN stored_queue_row(s) ELSE "none"]
       /\ tasks \in stored_task_rows(n, s)
  /\ task_queue = <<>>
  /\ active_tasks = {}
  /\ handlers = [t \in {} |-> [pc |-> "start", view |-> "NEW", pending |-> <<>>]]
  /\ _calibre_exists = FALSE
  /\ _found_qualifying_results = FALSE
  /\ max_concurrent_tasks \in 1..MaxSlots
  /\ phase = "init"
  /\ faults = 0
  /\ syncs = 0
  /\ PipelineManagerInit(FALSE)

\* ------------------------------------------------------- scheduler: queue
\* heapq.heappush with ScheduledTask.__lt__: earlier next_run_time first; a
\* task pushed later with the same remaining wait has the later run time.
heappush(q, e) ==
  LET k == Cardinality({i \in 1..Len(q) : q[i].wait <= e.wait})
  IN  SubSeq(q, 1, k) \o <<e>> \o SubSeq(q, k + 1, Len(q))

\* TaskScheduler.schedule_task on scheduler state sch = [tasks, queue], given
\* the committed status of the item.  A rejected call (ValueError) leaves the
\* scheduler unchanged.
schedule_task(sch, status, book_id, stage, delay_seconds) ==
  IF _can_schedule_for_stage(status, stage)
    THEN [tasks |-> Append(sch.tasks,
                      [book |-> book_id, stage |-> stage, status |-> "queued",
                       retry_count |-> 0, max_retries |-> DefaultMaxRetries]),
          queue |-> heappush(sch.queue,
                      [id |-> Len(sch.tasks) + 1, wait |-> delay_seconds])]
    ELSE sch

\* main._schedule_pipeline_tasks: schedule_book_pipeline(start_stage =
\* "data_collection") for every NEW item, in id order.
RECURSIVE _schedule_pipeline_tasks(_, _, _)
_schedule_pipeline_tasks(sch, status, b) ==
  IF b > Len(status) THEN sch
  ELSE _schedule_pipeline_tasks(
         IF status[b] = "NEW"
           THEN schedule_task(sch, status[b], b, "data_collection", 0)
           ELSE sch,
         status, b + 1)

\* main._schedule_single_book_task: stage chosen from the item's status
pending_stage(status) ==
  CASE status = "NEW" -> "data_collection"
    [] status \in {"DETAIL_COMPLETE", "SEARCH_QUEUED"} -> "search"
    [] status \in {"SEARCH_COMPLETE", "DOWNLOAD_QUEUED"} -> "download"
    [] status \in {"DOWNLOAD_COMPLETE", "UPLOAD_QUEUED"} -> "upload"
    [] OTHER -> "none"

\* main._get_pending_books_for_processing: items grouped by status in query
\* order (group g of pending_status_order, item b within the group)
pending_status_order ==
  <<"NEW", "DETAIL_COMPLETE", "SEARCH_QUEUED", "SEARCH_COMPLETE",
    "DOWNLOAD_QUEUED", "DOWNLOAD_COMPLETE", "UPLOAD_QUEUED">>

RECURSIVE _get_pending_books_for_processing(_, _)
_get_pending_books_for_processing(g, b) ==
  IF g > Len(pending_status_order) THEN <<>>
  ELSE IF b > Len(bookStatus) THEN _get_pending_books_for_processing(g + 1, 1)
  ELSE (IF bookStatus[b] = pending_status_order[g] THEN <<b>> ELSE <<>>)
       \o _get_pending_books_for_processing(g, b + 1)

\* run_once / _schedule_pipeline_tasks_for_books: in debug mode (the mode in
\* which max_concurrent_tasks is 1) only the first three pending items are kept
DebugBookLimit == 3

debug_limited(books) ==
  IF max_concurrent_tasks = 1 /\ Len(books) > DebugBookLimit
    THEN SubSeq(books, 1, DebugBookLimit) ELSE books

\* main._schedule_pipeline_tasks_for_books: _schedule_single_book_task for
\* each listed item (delay 0, a rejected call is swallowed)
RECURSIVE _schedule_pipeline_tasks_for_books(_, _)
_schedule_pipeline_tasks_for_books(sch, books) ==
  IF books = <<>> THEN sch
  ELSE _schedule_pipeline_tasks_for_books(
         schedule_task(sch, bookStatus[Head(books)], Head(books),
                       pending_stage(bookStatus[Head(books)]), 0),
         Tail(books))

SchedState == [tasks |-> tasks, queue |-> task_queue]

\* rows are only ever appended; the bound caps how many are created
Room(n) == Len(tasks) + n <= MaxTasks


scheduler_running == phase \in {"running", "daemon"}

\* ----------------------------------------------------- scheduler: dispatch
\* a dispatcher that starts every due task, whatever the number of free slots
dispatch_all_due(slots, due) == due

\* _scheduler_loop: available_slots
available_slots(active) == max_concurrent_tasks - Cardinality(active)

\* _scheduler_loop: tasks_to_run[:available_slots]
dispatch_count(slots, due) == Min(slots, due)

\* number of queue entries whose next_run_time has been reached
due_count == Cardinality({i \in 1..Len(task_queue) : task_queue[i].wait = 0})

\* the session-local state of a handler thread that has not yet run
fresh_handler == [pc |-> "start", view |-> "NEW", pending |-> <<>>]

\* One iteration of _scheduler_loop that pops at least one due task while a
\* slot is free: every due task is popped, the first available_slots of them
\* go through _execute_task, the others are not pushed back.  (With no free
\* slot the popped tasks are pushed back and the iteration changes nothing.)
Tick ==
  /\ scheduler_running
  /\ due_count > 0
  /\ available_slots(active_tasks) > 0
  /\ LET n == dispatch_count(available_slots(active_tasks), due_count)
         run == {task_queue[i].id : i \in 1..n}
         ok == {t \in run : _can_schedule_for_stage(bookStatus[tasks[t].book], tasks[t].stage)}
     IN  /\ task_queue' = SubSeq(task_queue, due_count + 1, Len(task_queue))
         /\ tasks' = [t \in DOMAIN tasks |->
                        IF t \in ok THEN [tasks[t] EXCEPT !.status = "active"]
                        ELSE IF t \in run THEN [tasks[t] EXCEPT !.status = "cancelled"]
                        ELSE tasks[t]]
         /\ active_tasks' = active_tasks \cup ok
         /\ handlers' = [t \in DOMAIN handlers \cup ok |->
                           IF t \in ok THEN fresh_handler ELSE handlers[t]]
  /\ UNCHANGED <<storeVars, stageVars, envVars>>

\* Time passes up to the next run time in the queue.  The dispatcher ticks
\* every second, so this only happens when no dispatch is possible.
Elapse ==
  /\ scheduler_running
  /\ due_count = 0 \/ available_slots(active_tasks) <= 0
  /\ \E i \in 1..Len(task_queue) : task_queue[i].wait > 0
  /\ LET d == task_queue[due_count + 1].wait
     IN  task_queue' = [i \in 1..Len(task_queue) |->
                          [task_queue[i] EXCEPT !.wait =
                             IF task_queue[i].wait > d THEN task_queue[i].wait - d ELSE 0]]
  /\ UNCHANGED <<storeVars, stageVars, tasks, active_tasks, handlers, envVars>>

\* ------------------------------------------------------------ exceptions
\* core.pipeline exception classes as raised towards the scheduler:
\* cls = class, retryable = the instance attribute, short = the message
\* passes the scheduler's is_status_mismatch test
NoException == [cls |-> "none", retryable |-> TRUE, short |-> FALSE]
NetworkError == [cls |-> "NetworkError", retryable |-> TRUE, short |-> FALSE]
ResourceNotFoundError == [cls |-> "ResourceNotFoundError", retryable |-> FALSE, short |-> FALSE]
\* BaseStage.execute_with_session: ProcessingError(msg, "status_mismatch",
\* retryable=True); the message carries the lower-case status value
StatusMismatchError == [cls |-> "ProcessingError", retryable |-> TRUE, short |-> FALSE]
\* SearchStage.process: the message lists "[DETAIL_COMPLETE, SEARCH_QUEUED, SEARCH_ACTIVE]"
SearchMismatchError == [cls |-> "ProcessingError", retryable |-> TRUE, short |-> TRUE]
\* SearchStage.process: ProcessingError("认证错误: ...", "auth", retryable=False)
\* after the remote search failed with "login" or "auth" in its message
SearchAuthError == [cls |-> "ProcessingError", retryable |-> FALSE, short |-> FALSE]
\* DownloadStage.process: ProcessingError("下载失败: ...") and
\* ProcessingError("无法处理书籍: ..., 状态不匹配"), retryable by default
DownloadProcessingError == [cls |-> "ProcessingError", retryable |-> TRUE, short |-> FALSE]
DownloadLimitExhaustedError ==
  [cls |-> "DownloadLimitExhaustedError", retryable |-> FALSE, short |-> FALSE]

\* ErrorClassifier.classify_error(...).retryable: decided by the class (and
\* the pattern table), never by the instance's retryable attribute
classify_error(e) ==
  CASE e.cls = "DownloadLimitExhaustedError" -> FALSE
    [] e.cls = "NetworkError" -> TRUE
    [] e.cls = "ResourceNotFoundError" -> FALSE
    [] OTHER -> TRUE

\* TaskScheduler._handle_task_failure: delay before the retry
ShortRetryBase == 5
ShortRetryStep == 5
ShortRetryLimit == 2

retry_delay(retry_count, short) ==
  IF short /\ retry_count <= ShortRetryLimit
    THEN ShortRetryBase + retry_count * ShortRetryStep
    ELSE Min(RetryMaxDelay, RetryBaseDelay * Pow2(retry_count - 1))

\* TaskScheduler._pause_download_tasks
_pause_download_tasks(sch) ==
  LET dl == {sch.queue[i].id : i \in {j \in 1..Len(sch.queue) :
                                       sch.tasks[sch.queue[j].id].stage = "download"}}
  IN  [tasks |-> [t \in DOMAIN sch.tasks |->
                    IF t \in dl THEN [sch.tasks[t] EXCEPT !.status = "cancelled"]
                    ELSE sch.tasks[t]],
       queue |-> SelectSeq(sch.queue, LAMBDA e : sch.tasks[e.id].stage # "download")]

\* a retry budget with one attempt more than max_retries
within_extended_budget(retry_count, max_retries) == retry_count <= max_retries + 1

\* _handle_task_failure: "if task.retry_count <= task.max_retries"
within_retry_budget(retry_count, max_retries) == retry_count <= max_retries

\* TaskScheduler._handle_task_failure(task, error_message, exception)
_handle_task_failure(sch, t, e) ==
  IF e.cls = "DownloadLimitExhaustedError"
    THEN _pause_download_tasks([sch EXCEPT !.tasks[t].status = "failed"])
  ELSE IF e.cls # "none" /\ ~classify_error(e)
    THEN [sch EXCEPT !.tasks[t].status = "failed"]
  ELSE LET rc == sch.tasks[t].retry_count + 1
       IN  IF within_retry_budget(rc, sch.tasks[t].max_retries)
             THEN [tasks |-> [sch.tasks EXCEPT ![t].retry_count = rc, ![t].status = "queued"],
                   queue |-> heappush(sch.queue,
                               [id |-> t, wait |-> retry_delay(rc, e.short)])]
             ELSE [sch EXCEPT !.tasks[t].retry_count = rc, !.tasks[t].status = "failed"]

\* ------------------------------------------------- state manager: writers
\* transition_status_in_session followed by the caller's "book.status = ..."
\* on the session's item h: a valid edge adds a history row to the session,
\* an invalid one adds nothing, the local status is assigned either way.
transition_status_in_session(h, to_status) ==
  [h EXCEPT !.view = to_status,
            !.pending = IF is_valid_transition(h.view, to_status)
                          THEN Append(@, <<h.view, to_status>>) ELSE @]

\* rollback_download_tasks_when_limit_exhausted: rollback_statuses
rollback_statuses == {"DOWNLOAD_QUEUED", "DOWNLOAD_ACTIVE", "DOWNLOAD_FAILED"}

\* rollback_download_tasks_when_limit_exhausted on store st = [status, history]
rollback_download_tasks_when_limit_exhausted(st) ==
  [status |-> [b \in DOMAIN st.status |-> IF st.status[b] \in rollback_statuses
                                 THEN "SEARCH_COMPLETE" ELSE st.status[b]],
   history |-> [b \in DOMAIN st.status |-> IF st.status[b] \in rollback_statuses
                                  THEN Append(st.history[b], <<st.status[b], "SEARCH_COMPLETE">>)
                                  ELSE st.history[b]]]

\* a transition_status that writes the target without validating the edge
transition_status_unvalidated(st, b, to_status) ==
  [status |-> [st.status EXCEPT ![b] = to_status],
   history |-> [st.history EXCEPT ![b] = Append(@, <<st.status[b], to_status>>)]]

\* BookStateManager.transition_status without its scheduling tail: validated
\* against the committed status, status and history row in one transaction
transition_status(st, b, to_status) ==
  IF is_valid_transition(st.status[b], to_status)
    THEN [status |-> [st.status EXCEPT ![b] = to_status],
          history |-> [st.history EXCEPT ![b] = Append(@, <<st.status[b], to_status>>)]]
    ELSE st

StoreState == [status |-> bookStatus, history |-> history]

\* ------------------------------------------------------- stage contracts
\* the statuses the detail and upload stages accept, as documented
documented_accepted_statuses ==
  [g \in {"data_collection", "upload"} |->
    IF g = "data_collection" THEN {"NEW", "DETAIL_FETCHING"}
    ELSE {"DOWNLOAD_COMPLETE", "UPLOAD_QUEUED", "UPLOAD_ACTIVE"}]

\* can_process of each stage on the committed status (every stage re-reads
\* the store); the download stage also wants a queued DownloadQueue row.
can_process_status ==
  [g \in Stages |->
    CASE g = "search" -> {"DETAIL_COMPLETE", "SEARCH_QUEUED", "SEARCH_ACTIVE"}
      [] g = "download" -> {"DOWNLOAD_QUEUED", "DOWNLOAD_ACTIVE"}
      [] OTHER -> documented_accepted_statuses[g]]

can_process(g, b) ==
  /\ bookStatus[b] \in can_process_status[g]
  /\ g = "download" => download_queue[b] = "queued"

\* SearchStage.get_next_status(True) for given values of the stage's flags
search_success_status(calibre_exists, found_qualifying_results) ==
  IF calibre_exists THEN "SKIPPED_EXISTS"
  ELSE IF found_qualifying_results THEN "SEARCH_COMPLETE"
  ELSE "SEARCH_NO_RESULTS"

\* SearchStage.get_next_status
search_get_next_status(success) ==
  IF success
    THEN search_success_status(_calibre_exists, _found_qualifying_results)
    ELSE "SEARCH_NO_RESULTS"

\* DownloadStage.get_next_status
download_get_next_status(success) ==
  IF success THEN "DOWNLOAD_COMPLETE" ELSE "DOWNLOAD_FAILED"

\* get_next_status(True) of the detail and upload stages, as documented
documented_success_status(g) ==
  IF g = "data_collection" THEN "DETAIL_COMPLETE" ELSE "UPLOAD_COMPLETE"

\* the outcomes that are failures of the outside world
FaultOutcomes == {"network", "not_found", "login", "reset", "limit"}

\* what a stage's process() can do once can_process has passed
Outcomes(g) ==
  CASE g = "data_collection" -> {"ok", "network"}
    [] g = "search" -> {"exists", "found", "none", "not_found", "network", "login", "reset"}
    [] g = "download" -> {"ok", "network", "not_found", "limit"}
    [] g = "upload" -> {"ok", "network"}

\* ------------------------------------------------------- handler threads
\* BookStateManager.get_session at exit of the handler's "with" block: the
\* session's status and history rows are committed on a normal exit and
\* discarded when an exception passes through.
get_session_exit(st, b, h, raised) ==
  IF raised THEN st
  ELSE [status |-> [st.status EXCEPT ![b] = h.view],
        history |-> [st.history EXCEPT ![b] = @ \o h.pending]]

\* BaseStage.execute_with_session, "except ProcessingError": a non-retryable
\* error is turned into a FAILED_PERMANENT transition in the session
on_processing_error(h, e) ==
  IF e.retryable THEN h ELSE transition_status_in_session(h, "FAILED_PERMANENT")

\* run_handler after the handler returned False or raised, and its finally
finish_failed(t, e) ==
  LET sch == _handle_task_failure(SchedState, t, e)
  IN  /\ tasks' = sch.tasks
      /\ task_queue' = sch.queue
      /\ active_tasks' = active_tasks \ {t}
      /\ handlers' = [x \in DOMAIN handlers \ {t} |-> handlers[x]]

\* process() raised ProcessingError e: execute_with_session re-raises it
\* through the handler's session block to run_handler
raise_processing_error(t, e) ==
  LET b == tasks[t].book
      st == get_session_exit(StoreState, b, on_processing_error(handlers[t], e), TRUE)
  IN  /\ bookStatus' = st.status
      /\ history' = st.history
      /\ finish_failed(t, e)

\* process() returned True: transition to next_status and session.commit()
commit_success(t, next_status) ==
  LET b == tasks[t].book
      h == transition_status_in_session(handlers[t], next_status)
      st == get_session_exit(StoreState, b, h, FALSE)
  IN  /\ bookStatus' = st.status
      /\ history' = st.history
      /\ handlers' = [handlers EXCEPT ![t] = [pc |-> "committed", view |-> h.view,
                                              pending |-> <<>>]]
      /\ UNCHANGED <<tasks, task_queue, active_tasks>>

\* process() returned False: transition to next_status, the handler returns
\* False, its session block commits, run_handler calls _handle_task_failure
return_false(t, st0, next_status) ==
  LET b == tasks[t].book
      h == transition_status_in_session(handlers[t], next_status)
      st == get_session_exit(st0, b, h, FALSE)
  IN  /\ bookStatus' = st.status
      /\ history' = st.history
      /\ finish_failed(t, NoException)

\* The handler of main._register_task_handlers up to the call of process():
\* session.get, refresh, can_process, the pre-queue and active transitions.
\* The download stage's can_process rolls every download item back when the
\* remote limit check says no.
HandlerBegin(t) ==
  /\ handlers[t].pc = "start"
  /\ LET b == tasks[t].book
         g == tasks[t].stage
         h0 == [handlers[t] EXCEPT !.view = bookStatus[b]]
         h1 == IF g = "search" /\ h0.view = "DETAIL_COMPLETE"
                 THEN transition_status_in_session(h0, "SEARCH_QUEUED") ELSE h0
         h2 == transition_status_in_session(h1, _get_active_status[g])
     IN  \/ /\ can_process(g, b)
            /\ handlers' = [handlers EXCEPT ![t] = [h2 EXCEPT !.pc = "processing"]]
            /\ UNCHANGED <<bookStatus, history, tasks, task_queue, active_tasks, faults>>
         \/ /\ ~can_process(g, b)
            /\ UNCHANGED <<bookStatus, history, faults>>
            /\ finish_failed(t, StatusMismatchError)
         \/ /\ g = "download" /\ can_process(g, b)
            /\ faults < MaxFaults /\ faults' = faults + 1
            /\ LET st == rollback_download_tasks_when_limit_exhausted(StoreState)
               IN  bookStatus' = st.status /\ history' = st.history
            /\ finish_failed(t, StatusMismatchError)
  /\ UNCHANGED <<download_queue, stageVars, max_concurrent_tasks, callVars, searchVars, pmVars, phase, syncs>>

\* process() and the rest of execute_with_session for the detail and upload
\* stages.
SimpleStageProcess(t, o) ==
  /\ handlers[t].pc = "processing"
  /\ tasks[t].stage \in {"data_collection", "upload"}
  /\ o \in Outcomes(tasks[t].stage)
  /\ faults' = IF o \in FaultOutcomes THEN faults + 1 ELSE faults
  /\ faults' <= MaxFaults
  /\ \/ o = "ok" /\ commit_success(t, documented_success_status(tasks[t].stage))
     \/ o = "network" /\ raise_processing_error(t, NetworkError)
  /\ UNCHANGED <<download_queue, stageVars, max_concurrent_tasks, callVars, searchVars, pmVars, phase, syncs>>

\* SearchStage.process: the flags are reset, can_process is asked again, then
\* the library probe and the remote search decide.  process() returns True
\* from two places: right after the library probe found a match (the thread
\* is then at "matched") and at the end of the remote search ("processed").
SearchProcess(t, o) ==
  /\ handlers[t].pc = "processing"
  /\ tasks[t].stage = "search"
  /\ o \in Outcomes("search")
  /\ faults' = IF o \in FaultOutcomes /\ can_process("search", tasks[t].book)
                 THEN faults + 1 ELSE faults
  /\ faults' <= MaxFaults
  /\ LET b == tasks[t].book
     IN  IF ~can_process("search", b)
           THEN /\ _calibre_exists' = FALSE /\ _found_qualifying_results' = FALSE
                /\ UNCHANGED download_queue
                /\ IF bookStatus[b] = "DETAIL_FETCHING"
                     THEN return_false(t, StoreState, search_get_next_status(FALSE))
                     ELSE raise_processing_error(t, SearchMismatchError)
           ELSE
             \/ /\ o \in {"exists", "found", "none"}
                /\ _calibre_exists' = (o = "exists")
                /\ _found_qualifying_results' = (o = "found")
                /\ download_queue' =
                     IF o = "found" /\ download_queue[b] = "none"
                       THEN [download_queue EXCEPT ![b] = "queued"] ELSE download_queue
                /\ handlers' = [handlers EXCEPT ![t].pc =
                                  IF o = "exists" THEN "matched" ELSE "processed"]
                /\ UNCHANGED <<bookStatus, history, tasks, task_queue, active_tasks>>
             \/ /\ o \in {"not_found", "network", "login"}
                /\ _calibre_exists' = FALSE /\ _found_qualifying_results' = FALSE
                /\ UNCHANGED download_queue
                /\ raise_processing_error(t, CASE o = "network" -> NetworkError
                                                [] o = "not_found" -> ResourceNotFoundError
                                                [] o = "login" -> SearchAuthError)
             \/ /\ o = "reset"
                /\ _calibre_exists' = FALSE /\ _found_qualifying_results' = FALSE
                /\ UNCHANGED download_queue
                /\ return_false(t, transition_status(StoreState, b, "SEARCH_QUEUED"),
                                search_get_next_status(FALSE))
  /\ UNCHANGED <<max_concurrent_tasks, callVars, searchVars, pmVars, phase, syncs>>

\* execute_with_session after SearchStage.process returned True:
\* get_next_status reads the stage's flags.
SearchFinish(t) ==
  /\ handlers[t].pc \in {"processed", "matched"}
  /\ commit_success(t, search_get_next_status(TRUE))
  /\ UNCHANGED <<download_queue, stageVars, envVars>>

\* DownloadStage.process and the rest of execute_with_session.
DownloadProcess(t, o) ==
  /\ handlers[t].pc = "processing"
  /\ tasks[t].stage = "download"
  /\ o \in Outcomes("download")
  /\ faults' = IF o \in FaultOutcomes /\ can_process("download", tasks[t].book)
                 THEN faults + 1 ELSE faults
  /\ faults' <= MaxFaults
  /\ LET b == tasks[t].book
         failed_row == [download_queue EXCEPT ![b] = "failed"]
     IN  IF ~can_process("download", b)
           THEN /\ UNCHANGED download_queue
                /\ raise_processing_error(t, DownloadProcessingError)
           ELSE
             \/ /\ o = "ok"
                /\ download_queue' = [download_queue EXCEPT ![b] = "completed"]
                /\ commit_success(t, download_get_next_status(TRUE))
             \/ /\ o \in {"network", "not_found"}
                /\ download_queue' = failed_row
                /\ raise_processing_error(t, IF o = "network" THEN NetworkError
                                                ELSE ResourceNotFoundError)
             \/ /\ o = "limit"
                /\ download_queue' = failed_row
                /\ LET st == rollback_download_tasks_when_limit_exhausted(StoreState)
                   IN  bookStatus' = st.status /\ history' = st.history
                /\ finish_failed(t, DownloadProcessingError)
  /\ UNCHANGED <<stageVars, max_concurrent_tasks, callVars, searchVars, pmVars, phase, syncs>>

\* BookStateManager._schedule_next_stage_if_needed(book_id, current_status)
\* on store st and scheduler sch
_schedule_next_stage_if_needed(st, sch, b, current_status) ==
  IF current_status \in DOMAIN next_stage_mapping
    THEN LET next_stage == next_stage_mapping[current_status]
             st1 == IF st.status[b] = current_status
                      THEN [status |-> [st.status EXCEPT ![b] = next_queued_status[next_stage]],
                            history |-> [st.history EXCEPT ![b] =
                               Append(@, <<current_status, next_queued_status[next_stage]>>)]]
                      ELSE st
         IN  [store |-> st1,
              sched |-> schedule_task(sch, st1.status[b], b, next_stage, NextStageDelay)]
    ELSE [store |-> st, sched |-> sch]

\* the upload stage's documented last step: UPLOAD_COMPLETE -> COMPLETED
upload_finalize(st, g, b, current_status) ==
  IF g = "upload" /\ current_status = "UPLOAD_COMPLETE"
    THEN transition_status(st, b, "COMPLETED") ELSE st

\* The tail of a successful handler: execute_with_session schedules the next
\* stage and returns True, run_handler marks the row completed and leaves
\* the active map.
HandlerAfterCommit(t) ==
  /\ handlers[t].pc = "committed"
  /\ Room(1)
  /\ LET b == tasks[t].book
         cur == handlers[t].view
         r == _schedule_next_stage_if_needed(StoreState, SchedState, b, cur)
         st == upload_finalize(r.store, tasks[t].stage, b, cur)
     IN  /\ bookStatus' = st.status
         /\ history' = st.history
         /\ tasks' = [r.sched.tasks EXCEPT ![t].status = "completed"]
         /\ task_queue' = r.sched.queue
  /\ active_tasks' = active_tasks \ {t}
  /\ handlers' = [x \in DOMAIN handlers \ {t} |-> handlers[x]]
  /\ UNCHANGED <<download_queue, stageVars, envVars>>

\* ------------------------------------------------------------ reconciler
\* cleanup_mismatched_tasks: stage_status_requirements
stage_status_requirements ==
  [g \in Stages |->
    CASE g = "data_collection" -> {"NEW"}
      [] g = "search" -> {"DETAIL_COMPLETE", "SEARCH_QUEUED", "SEARCH_ACTIVE"}
      [] g = "download" -> {"SEARCH_COMPLETE", "DOWNLOAD_QUEUED", "DOWNLOAD_ACTIVE"}
      [] g = "upload" -> {"DOWNLOAD_COMPLETE", "UPLOAD_QUEUED", "UPLOAD_ACTIVE"}]

\* cleanup_mismatched_tasks: final_statuses
final_statuses ==
  {"COMPLETED", "SKIPPED_EXISTS", "FAILED_PERMANENT", "UPLOAD_COMPLETE", "SEARCH_NO_RESULTS"}

\* cleanup_mismatched_tasks: should_cleanup for a task row and the committed
\* status of its item
should_cleanup(row, status) ==
  /\ row.status \in {"queued", "active"}
  /\ \/ status \notin stage_status_requirements[row.stage]
     \/ status \in final_statuses

\* a recovery table that also takes a queued download one step back
recovery_mapping_one_step_back ==
  [s \in {"DETAIL_FETCHING", "SEARCH_ACTIVE", "DOWNLOAD_ACTIVE", "UPLOAD_ACTIVE",
          "DOWNLOAD_QUEUED"} |->
    CASE s = "DETAIL_FETCHING" -> "NEW"
      [] s = "SEARCH_ACTIVE" -> "SEARCH_QUEUED"
      [] s = "DOWNLOAD_ACTIVE" -> "DOWNLOAD_QUEUED"
      [] s = "UPLOAD_ACTIVE" -> "UPLOAD_QUEUED"
      [] s = "DOWNLOAD_QUEUED" -> "SEARCH_COMPLETE"]

\* ------------------------------------------------------------- the driver
\* BookStateManager.recover_from_crash on store st
recovery_mapping ==
  [s \in {"DETAIL_FETCHING", "SEARCH_ACTIVE", "DOWNLOAD_ACTIVE", "UPLOAD_ACTIVE"} |->
    CASE s = "DETAIL_FETCHING" -> "NEW"
      [] s = "SEARCH_ACTIVE" -> "SEARCH_QUEUED"
      [] s = "DOWNLOAD_ACTIVE" -> "DOWNLOAD_QUEUED"
      [] s = "UPLOAD_ACTIVE" -> "UPLOAD_QUEUED"]

RECURSIVE recover_from_crash(_, _)
recover_from_crash(st, b) ==
  IF b > Len(st.status) THEN st
  ELSE recover_from_crash(
         IF st.status[b] \in DOMAIN recovery_mapping
           THEN transition_status(st, b, recovery_mapping[st.status[b]])
           ELSE st,
         b + 1)

\* BookStateManager.reset_stale_detail_fetching_books on store st (an item
\* still in DETAIL_FETCHING when a run starts is older than the timeout)
reset_stale_detail_fetching_books(st) ==
  [status |-> [b \in DOMAIN st.status |->
                 IF st.status[b] = "DETAIL_FETCHING" THEN "NEW" ELSE st.status[b]],
   history |-> [b \in DOMAIN st.status |->
                  IF st.status[b] = "DETAIL_FETCHING"
                    THEN Append(st.history[b], <<"DETAIL_FETCHING", "NEW">>)
                    ELSE st.history[b]]]

\* BookStateManager.cleanup_mismatched_tasks on the task rows, reading the
\* committed statuses
cleanup_mismatched_tasks(rows, status) ==
  [t \in DOMAIN rows |->
     IF should_cleanup(rows[t], status[rows[t].book])
       THEN [rows[t] EXCEPT !.status = "cancelled"] ELSE rows[t]]

\* The end of DoubanZLibraryCalibrer.__init__: _recover_from_crash
\* (recover_from_crash, then cleanup_mismatched_tasks); the state monitor
\* thread is started.
Construct ==
  /\ phase = "init"
  /\ LET st == recover_from_crash(StoreState, 1)
     IN  /\ bookStatus' = st.status
         /\ history' = st.history
         /\ tasks' = cleanup_mismatched_tasks(tasks, st.status)
  /\ phase' = "boot"
  /\ UNCHANGED <<download_queue, stageVars, task_queue, active_tasks, handlers,
                 max_concurrent_tasks, callVars, searchVars, pmVars, faults, syncs>>

\* run_once: reset_stale_detail_fetching_books, then sync_douban_books
\* succeeds and schedules a data_collection task for every NEW item.
RunOnceSync ==
  /\ phase = "boot"
  /\ Room(Len(bookStatus))
  /\ LET st == reset_stale_detail_fetching_books(StoreState)
         sch == _schedule_pipeline_tasks(SchedState, st.status, 1)
     IN  /\ bookStatus' = st.status
         /\ history' = st.history
         /\ tasks' = sch.tasks
         /\ task_queue' = sch.queue
  /\ phase' = "synced"
  /\ UNCHANGED <<download_queue, stageVars, active_tasks, handlers, max_concurrent_tasks, callVars, searchVars, pmVars,
                 faults, syncs>>

\* run_once: the wish-list source answers 403 and the run carries on with the
\* items already stored.
RunOnceSyncDenied ==
  /\ phase = "boot"
  /\ LET st == reset_stale_detail_fetching_books(StoreState)
     IN  bookStatus' = st.status /\ history' = st.history
  /\ phase' = "synced"
  /\ UNCHANGED <<download_queue, stageVars, tasks, task_queue, active_tasks, handlers,
                 max_concurrent_tasks, callVars, searchVars, pmVars, faults, syncs>>

\* run_once: schedule a task for every pending item, then start_pipeline.
RunOncePending ==
  /\ phase = "synced"
  /\ Room(Len(bookStatus))
  /\ LET books == debug_limited(_get_pending_books_for_processing(1, 1))
         sch == _schedule_pipeline_tasks_for_books(SchedState, debug_limited(books))
     IN  /\ books # <<>>
         /\ tasks' = sch.tasks /\ task_queue' = sch.queue
  /\ phase' = "running"
  /\ UNCHANGED <<storeVars, stageVars, active_tasks, handlers, max_concurrent_tasks, callVars, searchVars, pmVars,
                 faults, syncs>>

\* run_daemon: start_pipeline before the first periodic sync.
RunDaemon ==
  /\ phase = "boot"
  /\ phase' = "daemon"
  /\ UNCHANGED <<storeVars, stageVars, tasks, task_queue, active_tasks, handlers,
                 max_concurrent_tasks, callVars, searchVars, pmVars, faults, syncs>>

\* _daemon_loop: a periodic sync_douban_books while the scheduler runs.
DaemonSync ==
  /\ phase = "daemon"
  /\ syncs < MaxSyncs
  /\ \E b \in Books : bookStatus[b] = "NEW"
  /\ Room(Len(bookStatus))
  /\ LET sch == _schedule_pipeline_tasks(SchedState, bookStatus, 1)
     IN  tasks' = sch.tasks /\ task_queue' = sch.queue
  /\ syncs' = syncs + 1
  /\ UNCHANGED <<storeVars, stageVars, active_tasks, handlers, max_concurrent_tasks, callVars, searchVars, pmVars,
                 phase, faults>>

\* A pass of the state monitor thread (every 60 s) that finds something to
\* do: cleanup_mismatched_tasks, then recover_from_crash.  The thread ends
\* when stop_pipeline sets the shutdown event.
StateMonitor ==
  /\ phase \notin {"init", "stopped"}
  /\ LET st == recover_from_crash(StoreState, 1)
     IN  /\ tasks' = cleanup_mismatched_tasks(tasks, bookStatus)
         /\ bookStatus' = st.status
         /\ history' = st.history
         /\ (tasks' # tasks \/ st # StoreState)
  /\ UNCHANGED <<download_queue, stageVars, task_queue, active_tasks, handlers, envVars>>

Next ==
  \/ Construct
  \/ RunOnceSync
  \/ RunOnceSyncDenied
  \/ RunOncePending
  \/ RunDaemon
  \/ DaemonSync
  \/ Tick
  \/ Elapse
  \/ \E t \in DOMAIN handlers : HandlerBegin(t)
  \/ \E t \in DOMAIN handlers, o \in {"ok", "network"} : SimpleStageProcess(t, o)
  \/ \E t \in DOMAIN handlers, o \in Outcomes("search") : SearchProcess(t, o)
  \/ \E t \in DOMAIN handlers : SearchFinish(t)
  \/ \E t \in DOMAIN handlers, o \in Outcomes("download") : DownloadProcess(t, o)
  \/ \E t \in DOMAIN handlers : HandlerAfterCommit(t)
  \/ StateMonitor

Spec == Init /\ [][Next]_vars

\* ------------------------------------------- operations on a given store
\* DownloadStage._update_book_status: the status alone is written
_update_book_status(st, b, new_status) ==
  [st EXCEPT !.status[b] = new_status]

\* DownloadStage.resume_quota_exhausted_books with a quota manager: the
\* sweep over the items _find_quota_exhausted_books returns, in id order.
\* Each update commits before the item's title is read for the log line;
\* with a session factory that expires instances on commit that read
\* raises on the detached item and ends the sweep (complete = FALSE).
RECURSIVE resume_quota_exhausted_books(_, _, _, _)
resume_quota_exhausted_books(st, has_quota, complete, b) ==
  IF ~has_quota \/ b > Len(st.status) THEN st
  ELSE IF st.status[b] # "SEARCH_COMPLETE_QUOTA_EXHAUSTED"
    THEN resume_quota_exhausted_books(st, has_quota, complete, b + 1)
  ELSE IF complete
    THEN resume_quota_exhausted_books(
           _update_book_status(st, b, "DOWNLOAD_QUEUED"), has_quota, complete, b + 1)
  ELSE _update_book_status(st, b, "DOWNLOAD_QUEUED")

\* A store in any condition, handed to single operations.
OpsInit ==
  /\ \E n \in 1..NumBooks :
       /\ bookStatus \in [1..n -> BookStatus]
       /\ history = [b \in 1..n |-> <<>>]
       /\ download_queue = [b \in 1..n |-> stored_queue_row(bookStatus[b])]
  /\ tasks = <<>>
  /\ task_queue = <<>>
  /\ active_tasks = {}
  /\ handlers = [t \in {} |-> fresh_handler]
  /\ _calibre_exists = FALSE
  /\ _found_qualifying_results = FALSE
  /\ max_concurrent_tasks \in 1..MaxSlots
  /\ phase = "ops"
  /\ faults = 0
  /\ syncs = 0
  /\ PipelineManagerInit(FALSE)

\* A call of DownloadStage.resume_quota_exhausted_books.
ResumeQuotaExhaustedBooks ==
  /\ phase = "ops"
  /\ \E has_quota \in BOOLEAN, complete \in BOOLEAN :
       LET st == resume_quota_exhausted_books(StoreState, has_quota, complete, 1)
       IN  bookStatus' = st.status /\ history' = st.history
  /\ UNCHANGED <<download_queue, stageVars, tasks, task_queue, active_tasks, handlers,
                 envVars>>

\* A call of BookStateManager.rollback_download_tasks_when_limit_exhausted.
RollbackDownloadTasks ==
  /\ phase = "ops"
  /\ LET st == rollback_download_tasks_when_limit_exhausted(StoreState)
     IN  bookStatus' = st.status /\ history' = st.history
  /\ UNCHANGED <<download_queue, stageVars, tasks, task_queue, active_tasks, handlers,
                 envVars>>

\* A call of BookStateManager.recover_from_crash.
RecoverFromCrash ==
  /\ phase = "ops"
  /\ LET st == recover_from_crash(StoreState, 1)
     IN  bookStatus' = st.status /\ history' = st.history
  /\ UNCHANGED <<download_queue, stageVars, tasks, task_queue, active_tasks, handlers,
                 envVars>>

\* A call of BookStateManager.transition_status(book_id, to_status) on a
\* state manager built without a task scheduler (the constructor's default),
\* so that _schedule_next_stage_if_needed returns at once.  The method
\* returns whether the edge was valid; it catches every exception.
TransitionStatus(b, to_status) ==
  /\ phase = "ops"
  /\ is_valid_transition(bookStatus[b], to_status) => Len(history[b]) < MaxTransitions
  /\ LET st == transition_status(StoreState, b, to_status)
     IN  bookStatus' = st.status /\ history' = st.history
  /\ last_call' = [op |-> "transition_status", count |-> 0,
                   result |-> returned(is_valid_transition(bookStatus[b], to_status))]
  /\ UNCHANGED <<download_queue, stageVars, tasks, task_queue, active_tasks, handlers,
                 max_concurrent_tasks, phase, faults, syncs, pmVars, download_workers, searchVars>>

OpsNext ==
  \/ ResumeQuotaExhaustedBooks
  \/ RollbackDownloadTasks
  \/ RecoverFromCrash
  \/ \E b \in Books, to_status \in BookStatus : TransitionStatus(b, to_status)

OpsSpec == OpsInit /\ [][OpsNext]_vars

\* ------------------------------------------------------ pipeline manager
\* PipelineManager._quota_check_interval
QuotaCheckInterval == 10

\* main._init_core_components: max_workers = 1 if debug_mode else 4
DefaultMaxWorkers == 4

max_workers == IF max_concurrent_tasks = 1 THEN 1 ELSE DefaultMaxWorkers

\* BookStateManager.STAGE_STATES, as read by get_books_by_stage
STAGE_STATES ==
  [g \in Stages |->
    CASE g = "data_collection" -> {"NEW", "DETAIL_FETCHING", "DETAIL_COMPLETE"}
      [] g = "search" -> {"SEARCH_QUEUED", "SEARCH_ACTIVE", "SEARCH_COMPLETE",
                          "SEARCH_NO_RESULTS"}
      [] g = "download" -> {"DOWNLOAD_QUEUED", "DOWNLOAD_ACTIVE", "DOWNLOAD_COMPLETE",
                            "DOWNLOAD_FAILED"}
      [] g = "upload" -> {"UPLOAD_QUEUED", "UPLOAD_ACTIVE", "UPLOAD_COMPLETE",
                          "UPLOAD_FAILED"}]

\* BaseStage._get_retry_status
_get_retry_status ==
  [g \in Stages |->
    CASE g = "data_collection" -> "NEW"
      [] g = "search" -> "SEARCH_QUEUED"
      [] g = "download" -> "DOWNLOAD_QUEUED"
      [] g = "upload" -> "UPLOAD_QUEUED"]

\* core.pipeline.AuthError
AuthError == [cls |-> "AuthError", retryable |-> FALSE, short |-> FALSE]

\* QuotaManager.has_quota_available: False while nothing is cached, else the
\* cached count decides, expired or not
has_quota_available == _cached_quota.cached /\ _cached_quota.remaining_downloads > 0

\* PipelineManager._check_download_quota (a quota manager is configured)
_check_download_quota == has_quota_available

\* BookStateManager.transition_status with its tail: after a committed
\* transition to a status that is not a *_queued one, the next stage is
\* scheduled.  r = [store, sched].
transition_status_and_schedule(r, b, to_status) ==
  IF is_valid_transition(r.store.status[b], to_status)
    THEN LET st == transition_status(r.store, b, to_status)
         IN  IF to_status \in {"SEARCH_QUEUED", "DOWNLOAD_QUEUED", "UPLOAD_QUEUED"}
               THEN [store |-> st, sched |-> r.sched]
               ELSE _schedule_next_stage_if_needed(st, r.sched, b, to_status)
    ELSE r

\* what process() can do under BaseStage.execute; the detail stage is the one
\* that meets the wish-list site's lockout
ExecuteOutcomes(g) ==
  IF g = "data_collection" THEN Outcomes(g) \cup {"auth"} ELSE Outcomes(g)

AllOutcomes == UNION {ExecuteOutcomes(g) : g \in Stages}

\* the exception that goes with a failure outcome of process()
raised_by(g, o) ==
  CASE o = "network" -> NetworkError
    [] o = "not_found" -> ResourceNotFoundError
    [] o = "auth" -> AuthError
    [] o = "login" -> SearchAuthError
    [] o = "limit" -> DownloadProcessingError
    [] OTHER -> NoException

\* BaseStage.execute, "except" clauses: DownloadLimitExhaustedError is
\* re-raised as it is, every other ProcessingError leaves as a plain Exception
raised_by_execute(e) ==
  IF e.cls \in {"none", "DownloadLimitExhaustedError"} THEN e
  ELSE [cls |-> "Exception", retryable |-> e.retryable, short |-> FALSE]

\* BaseStage.execute up to the call of process(): the pre-queue transition
\* of the search stage and the transition to the stage's active status, each
\* committed on its own by transition_status.  r0 = [store, sched].
execute_begin(r0, g, b) ==
  LET r1 == IF g = "search" /\ r0.store.status[b] = "DETAIL_COMPLETE"
              THEN transition_status_and_schedule(r0, b, "SEARCH_QUEUED") ELSE r0
  IN  transition_status_and_schedule(r1, b, _get_active_status[g])

\* BaseStage.execute from the call of process() on, with outcome o of
\* process(), on the store and scheduler r2 the worker finds.  The result is
\* the store, the scheduler, the download queue, the search stage's flags
\* and what execute raises.
execute_rest(r2, g, b, o) ==
  LET success == o \in {"ok", "exists", "found", "none"}
      e == raised_by(g, o)
      ce == IF g = "search" THEN o = "exists" ELSE _calibre_exists
      fq == IF g = "search" THEN o = "found" ELSE _found_qualifying_results
      r3 == CASE o = "reset" ->
                   [r2 EXCEPT !.store = transition_status(r2.store, b, "SEARCH_QUEUED")]
               [] o = "limit" ->
                   [r2 EXCEPT !.store = rollback_download_tasks_when_limit_exhausted(r2.store)]
               [] OTHER -> r2
      next_status ==
        IF success
          THEN CASE g = "search" -> search_success_status(ce, fq)
                 [] g = "download" -> download_get_next_status(TRUE)
                 [] OTHER -> documented_success_status(g)
        ELSE IF o = "reset" THEN search_get_next_status(FALSE)
        ELSE IF e.retryable THEN _get_retry_status[g]
        ELSE "FAILED_PERMANENT"
      r4 == transition_status_and_schedule(r3, b, next_status)
      queue == CASE g = "search" /\ o = "found" /\ download_queue[b] = "none" ->
                      [download_queue EXCEPT ![b] = "queued"]
                 [] g = "download" /\ o = "ok" -> [download_queue EXCEPT ![b] = "completed"]
                 [] g = "download" /\ ~success -> [download_queue EXCEPT ![b] = "failed"]
                 [] OTHER -> download_queue
  IN  [store |-> IF success THEN upload_finalize(r4.store, g, b, next_status)
                 ELSE r4.store,
       sched |-> r4.sched, queue |-> queue,
       calibre_exists |-> ce, found |-> fq,
       raised |-> raised_by_execute(e)]

\* BaseStage.execute(book) of stage g with outcome o of process(): every
\* transition is committed on its own by transition_status.
execute(g, b, o) ==
  LET r0 == [store |-> StoreState, sched |-> SchedState]
  IN  IF ~can_process(g, b)
        THEN [store |-> r0.store, sched |-> r0.sched, queue |-> download_queue,
              calibre_exists |-> _calibre_exists, found |-> _found_qualifying_results,
              raised |-> raised_by_execute(StatusMismatchError)]
        ELSE execute_rest(execute_begin(r0, g, b), g, b, o)

\* PipelineManager._execute_stage_with_session, "except" clauses
pause_on_exception(paused, g, e) ==
  CASE e.cls = "DownloadLimitExhaustedError" -> [paused EXCEPT ![g] = "limit"]
    [] e.cls = "AuthError" -> [paused EXCEPT ![g] = "auth"]
    [] OTHER -> paused

\* A worker of the pipeline manager's pool runs
\* _execute_stage_with_session(stage, book_id) for a submitted item.
ExecuteStageWithSession(b, o) ==
  /\ _running
  /\ b \in DOMAIN _active_tasks
  /\ o \in ExecuteOutcomes(_active_tasks[b])
  /\ Room(1)
  /\ LET g == _active_tasks[b]
         r == execute(g, b, o)
     IN  /\ faults' = IF o \in FaultOutcomes \cup {"auth"} /\ can_process(g, b)
                        THEN faults + 1 ELSE faults
         /\ faults' <= MaxFaults
         /\ bookStatus' = r.store.status
         /\ history' = r.store.history
         /\ tasks' = r.sched.tasks
         /\ task_queue' = r.sched.queue
         /\ download_queue' = r.queue
         /\ _calibre_exists' = r.calibre_exists
         /\ _found_qualifying_results' = r.found
         /\ _paused_stages' = pause_on_exception(_paused_stages, g, r.raised)
  /\ _active_tasks' = [x \in DOMAIN _active_tasks \ {b} |-> _active_tasks[x]]
  /\ UNCHANGED <<active_tasks, handlers, max_concurrent_tasks, callVars, searchVars, phase, syncs, _running,
                 _quota_check_counter, _cached_quota>>

\* the first n ids of a set of item ids, in id order
first_ids(ids, n) == {b \in ids : Cardinality({x \in ids : x < b}) < n}

\* One call of PipelineManager._process_stage(stage_name, stage) from the
\* main loop.  A paused stage returns at once.  The detail stage may find
\* the wish-list site's 403 flag set; the download stage checks the quota on
\* every QuotaCheckInterval-th call; the download stage's can_process rolls
\* the download items back when the remote limit check says no.  Then the
\* processable items are submitted to the pool, as many as it has free
\* workers.
ProcessStage(g) ==
  /\ _running
  /\ LET checked == g = "download" /\ _quota_check_counter + 1 >= QuotaCheckInterval
         counter == IF g # "download" THEN _quota_check_counter
                    ELSE IF checked THEN 0 ELSE _quota_check_counter + 1
         resumed == checked /\ _check_download_quota /\ _paused_stages[g] = "quota"
         processable == {b \in Books : bookStatus[b] \in STAGE_STATES[g] /\ can_process(g, b)}
         slots == max_workers - Cardinality(DOMAIN _active_tasks)
         submitted == IF slots <= 0 THEN {} ELSE first_ids(processable, slots)
     IN  IF _paused_stages[g] # "" THEN UNCHANGED vars
         ELSE
           \/ /\ g = "data_collection"
              /\ faults < MaxFaults /\ faults' = faults + 1
              /\ _paused_stages' = [_paused_stages EXCEPT ![g] = "403"]
              /\ UNCHANGED <<storeVars, _quota_check_counter, _active_tasks>>
           \/ /\ checked /\ ~_check_download_quota
              /\ _paused_stages' = [_paused_stages EXCEPT ![g] = "quota"]
              /\ _quota_check_counter' = counter
              /\ UNCHANGED <<storeVars, _active_tasks, faults>>
           \/ /\ g = "download" /\ ~(checked /\ ~_check_download_quota)
              /\ processable # {}
              /\ faults < MaxFaults /\ faults' = faults + 1
              /\ LET st == rollback_download_tasks_when_limit_exhausted(StoreState)
                 IN  bookStatus' = st.status /\ history' = st.history
              /\ _quota_check_counter' = counter
              /\ UNCHANGED <<download_queue, _paused_stages, _active_tasks>>
           \/ /\ ~(checked /\ ~_check_download_quota)
              /\ _quota_check_counter' = counter
              /\ _paused_stages' = IF resumed THEN [_paused_stages EXCEPT ![g] = ""]
                                   ELSE _paused_stages
              /\ \E complete \in BOOLEAN :
                   LET st == IF resumed
                               THEN resume_quota_exhausted_books(StoreState, TRUE, complete, 1)
                               ELSE StoreState
                   IN  bookStatus' = st.status /\ history' = st.history
              /\ _active_tasks' = [b \in DOMAIN _active_tasks \cup submitted |->
                                     IF b \in submitted THEN g ELSE _active_tasks[b]]
              /\ UNCHANGED <<download_queue, faults>>
  /\ UNCHANGED <<stageVars, tasks, task_queue, active_tasks, handlers,
                 max_concurrent_tasks, callVars, searchVars, phase, syncs, _running, _cached_quota>>

\* PipelineManager.resume_stage(stage_name), called by an operator
ResumeStage(g) ==
  /\ _running
  /\ _paused_stages[g] # ""
  /\ _paused_stages' = [_paused_stages EXCEPT ![g] = ""]
  /\ UNCHANGED <<storeVars, stageVars, tasks, task_queue, active_tasks, handlers,
                 max_concurrent_tasks, callVars, searchVars, phase, faults, syncs, _running,
                 _quota_check_counter, _active_tasks, _cached_quota>>

\* DownloadQuota.is_expired(cache_minutes)
is_expired(q) == q.expired

\* QuotaManager.get_current_quota(): with nothing cached or the cache
\* expired it fetches the quota from the remote service, which reports
\* `remaining`, and caches it; a valid cache is returned as it is.
GetCurrentQuota(remaining) ==
  /\ phase \in {"daemon", "quota"}
  /\ remaining \in 0..MaxRemaining
  /\ _cached_quota' = IF ~_cached_quota.cached \/ is_expired(_cached_quota)
                        THEN DownloadQuota(remaining) ELSE _cached_quota
  /\ last_call' = [op |-> "get_current_quota", count |-> 0, result |-> "quota"]
  /\ UNCHANGED <<storeVars, stageVars, tasks, task_queue, active_tasks, handlers,
                 max_concurrent_tasks, download_workers, searchVars, phase, faults, syncs, _running,
                 _paused_stages, _quota_check_counter, _active_tasks>>

\* cache_minutes pass since last_checked: the cached quota is expired
QuotaExpire ==
  /\ phase \in {"daemon", "quota"}
  /\ _cached_quota.cached /\ ~is_expired(_cached_quota)
  /\ _cached_quota' = [_cached_quota EXCEPT !.expired = TRUE]
  /\ UNCHANGED <<storeVars, stageVars, tasks, task_queue, active_tasks, handlers,
                 max_concurrent_tasks, callVars, searchVars, phase, faults, syncs, _running,
                 _paused_stages, _quota_check_counter, _active_tasks>>

\* A daemon run in which the pipeline manager's main loop has been started
\* next to the task scheduler, after construction: the loop, the pool's
\* workers, an operator, the quota manager's refresh, and the scheduler's
\* dispatcher handing out the tasks the state manager schedules (the handler
\* threads it starts take the steps of Spec, which are left out here).
PMInit ==
  /\ \E n \in 1..NumPipelineBooks, s \in BookStatus :
       /\ bookStatus = [b \in 1..n |-> IF b = n THEN s ELSE "NEW"]
       /\ history = [b \in 1..n |-> <<>>]
       /\ download_queue = [b \in 1..n |-> IF b = n THEN stored_queue_row(s) ELSE "none"]
  /\ tasks = <<>>
  /\ task_queue = <<>>
  /\ active_tasks = {}
  /\ handlers = [t \in {} |-> fresh_handler]
  /\ _calibre_exists = FALSE
  /\ _found_qualifying_results = FALSE
  /\ max_concurrent_tasks \in 1..MaxSlots
  /\ phase = "daemon"
  /\ faults = 0
  /\ syncs = 0
  /\ PipelineManagerInit(TRUE)

PMNext ==
  \/ \E g \in Stages : ProcessStage(g)
  \/ \E b \in DOMAIN _active_tasks, o \in AllOutcomes : ExecuteStageWithSession(b, o)
  \/ \E g \in Stages : ResumeStage(g)
  \/ \E remaining \in {0, MaxRemaining} : GetCurrentQuota(remaining)
  \/ QuotaExpire
  \/ Tick
  \/ Elapse

PMSpec == PMInit /\ [][PMNext]_vars

\* A pool worker runs BaseStage.execute for a submitted item up to the call
\* of process(): the item is read again, can_process is asked, and the
\* transition to the active status is committed.  A refused item ends the
\* call with the status-mismatch exception.
ExecuteBegin(b) ==
  /\ _running
  /\ b \in DOMAIN _active_tasks
  /\ b \notin in_process
  /\ Room(1)
  /\ LET g == _active_tasks[b]
         r == execute_begin([store |-> StoreState, sched |-> SchedState], g, b)
     IN  IF can_process(g, b)
           THEN /\ bookStatus' = r.store.status
                /\ history' = r.store.history
                /\ tasks' = r.sched.tasks
                /\ task_queue' = r.sched.queue
                /\ in_process' = in_process \cup {b}
                /\ UNCHANGED <<_active_tasks, _paused_stages>>
           ELSE /\ _paused_stages' = pause_on_exception(_paused_stages, g,
                                       raised_by_execute(StatusMismatchError))
                /\ _active_tasks' = [x \in DOMAIN _active_tasks \ {b} |-> _active_tasks[x]]
                /\ UNCHANGED <<storeVars, tasks, task_queue, in_process>>
  /\ UNCHANGED <<download_queue, stageVars, active_tasks, handlers, max_concurrent_tasks,
                 callVars, zlibrary_books, queue_item, phase, faults, syncs, _running,
                 _quota_check_counter, _cached_quota>>

\* The worker's process() ends with outcome o and BaseStage.execute commits
\* the closing transition on the store as it is by then.
ExecuteEnd(b, o) ==
  /\ _running
  /\ b \in in_process
  /\ o \in ExecuteOutcomes(_active_tasks[b])
  /\ Room(1)
  /\ LET g == _active_tasks[b]
         r == execute_rest([store |-> StoreState, sched |-> SchedState], g, b, o)
     IN  /\ faults' = IF o \in FaultOutcomes \cup {"auth"} THEN faults + 1 ELSE faults
         /\ faults' <= MaxFaults
         /\ bookStatus' = r.store.status
         /\ history' = r.store.history
         /\ tasks' = r.sched.tasks
         /\ task_queue' = r.sched.queue
         /\ download_queue' = r.queue
         /\ _calibre_exists' = r.calibre_exists
         /\ _found_qualifying_results' = r.found
         /\ _paused_stages' = pause_on_exception(_paused_stages, g, r.raised)
  /\ _active_tasks' = [x \in DOMAIN _active_tasks \ {b} |-> _active_tasks[x]]
  /\ in_process' = in_process \ {b}
  /\ UNCHANGED <<active_tasks, handlers, max_concurrent_tasks, callVars, zlibrary_books,
                 queue_item, phase, syncs, _running, _quota_check_counter, _cached_quota>>

\* The pipeline manager's loop and its workers next to the state monitor
\* thread that the application starts when it is constructed.
MonitorNext ==
  \/ \E g \in Stages : ProcessStage(g)
  \/ \E b \in DOMAIN _active_tasks : ExecuteBegin(b)
  \/ \E b \in in_process, o \in AllOutcomes : ExecuteEnd(b, o)
  \/ (\A b \in Books : Len(history[b]) <= MaxMonitorHistory) /\ StateMonitor

MonitorSpec == PMInit /\ [][MonitorNext]_vars

\* The quota gate of the download stage on its own: the main loop's calls of
\* _process_stage for the download stage, the quota manager's refresh and
\* the operator.  The main loop makes its call once a second, so that call
\* is scheduled fairly; the operator, the refresh and the cache's expiry are
\* under no obligation.
QuotaGateNext ==
  \/ ProcessStage("download")
  \/ ResumeStage("download")
  \/ \E remaining \in {0, MaxRemaining} : GetCurrentQuota(remaining)
  \/ QuotaExpire

QuotaGateFairSpec ==
  PMInit /\ [][QuotaGateNext]_vars /\ WF_vars(ProcessStage("download"))

\* QuotaManager.get_current_quota() when a fetch is due (nothing cached or
\* the cache expired) and the remote call fails: NetworkError is raised and
\* the cache is left as it was.
GetCurrentQuotaFailed ==
  /\ phase \in {"daemon", "quota"}
  /\ ~_cached_quota.cached \/ is_expired(_cached_quota)
  /\ faults < MaxFaults /\ faults' = faults + 1
  /\ last_call' = [op |-> "get_current_quota", count |-> 0, result |-> "NetworkError"]
  /\ UNCHANGED <<storeVars, stageVars, tasks, task_queue, active_tasks, handlers,
                 max_concurrent_tasks, download_workers, searchVars, phase, syncs, pmVars>>

\* the quota gate with a remote quota source that may fail
QuotaGateFailNext == QuotaGateNext \/ GetCurrentQuotaFailed

QuotaGateSpec == PMInit /\ [][QuotaGateFailNext]_vars

\* ---------------------------------------------------------- quota manager
\* a consume_quota that decrements a populated cache without comparing
consume_quota_unchecked(q, count) ==
  IF q.cached
    THEN [quota |-> [q EXCEPT !.remaining_downloads = @ - count], result |-> TRUE]
    ELSE [quota |-> q, result |-> FALSE]

\* QuotaManager.consume_quota(count) on cached quota q: the quota it leaves
\* and what it returns
consume_quota(q, count) ==
  IF q.cached /\ q.remaining_downloads >= count
    THEN [quota |-> [q EXCEPT !.remaining_downloads = @ - count], result |-> TRUE]
    ELSE [quota |-> q, result |-> FALSE]

\* the UNCHANGED list of a step of the quota manager's callers
schedulerVars == <<stageVars, tasks, task_queue, active_tasks, handlers,
                   max_concurrent_tasks, phase, faults, syncs, _running, _paused_stages,
                   _quota_check_counter, _active_tasks>>

\* A call of QuotaManager.has_quota_available().
HasQuotaAvailable ==
  /\ phase = "quota"
  /\ last_call' = [op |-> "has_quota_available", count |-> 0,
                    result |-> returned(has_quota_available)]
  /\ UNCHANGED <<storeVars, schedulerVars, _cached_quota, download_workers, searchVars>>

\* A call of QuotaManager.consume_quota(count).
ConsumeQuota(count) ==
  /\ phase = "quota"
  /\ count \in 1..MaxConsume
  /\ _cached_quota' = consume_quota(_cached_quota, count).quota
  /\ last_call' = [op |-> "consume_quota", count |-> count,
                    result |-> returned(consume_quota(_cached_quota, count).result)]
  /\ UNCHANGED <<storeVars, schedulerVars, download_workers, searchVars>>

\* A call of QuotaManager.reset_cache().
ResetCache ==
  /\ phase = "quota"
  /\ _cached_quota' = NoCachedQuota
  /\ last_call' = [op |-> "reset_cache", count |-> 0, result |-> "none"]
  /\ UNCHANGED <<storeVars, schedulerVars, download_workers, searchVars>>

\* A call of DownloadStage.process_book(book) for item b, from start to end,
\* with a quota manager.  An item not in SEARCH_COMPLETE raises.  Without
\* quota handle_quota_exhausted sets the item's status and the call returns
\* True.  With quota one unit is consumed and _download_book_async calls
\* process(), whose can_process wants DOWNLOAD_QUEUED or DOWNLOAD_ACTIVE: for
\* an item in SEARCH_COMPLETE it raises.
ProcessBook(b) ==
  /\ phase = "quota"
  /\ b \in Books
  /\ LET consumed == consume_quota(_cached_quota, 1)
     IN  IF bookStatus[b] # "SEARCH_COMPLETE"
           THEN /\ last_call' = [op |-> "process_book", count |-> b, result |-> "raised"]
                /\ UNCHANGED <<bookStatus, _cached_quota>>
         ELSE IF ~has_quota_available \/ ~consumed.result
           THEN /\ bookStatus' = _update_book_status(StoreState, b,
                                    "SEARCH_COMPLETE_QUOTA_EXHAUSTED").status
                /\ last_call' = [op |-> "process_book", count |-> b, result |-> "True"]
                /\ UNCHANGED _cached_quota
         ELSE /\ _cached_quota' = consumed.quota
              /\ ~can_process("download", b)
              /\ last_call' = [op |-> "process_book", count |-> b, result |-> "raised"]
              /\ UNCHANGED bookStatus
  /\ UNCHANGED <<history, download_queue, schedulerVars, download_workers, searchVars>>

\* The quota manager and the quota-aware download handler called by one
\* caller at a time, on a store holding one item in any status.
QuotaInit ==
  /\ \E s \in BookStatus :
       /\ bookStatus = <<s>>
       /\ history = <<<<>>>>
       /\ download_queue = <<stored_queue_row(s)>>
  /\ tasks = <<>>
  /\ task_queue = <<>>
  /\ active_tasks = {}
  /\ handlers = [t \in {} |-> fresh_handler]
  /\ _calibre_exists = FALSE
  /\ _found_qualifying_results = FALSE
  /\ max_concurrent_tasks = 1
  /\ phase = "quota"
  /\ faults = 0
  /\ syncs = 0
  /\ PipelineManagerInit(FALSE)

QuotaNext ==
  \/ \E remaining \in 0..MaxRemaining : GetCurrentQuota(remaining)
  \/ QuotaExpire
  \/ HasQuotaAvailable
  \/ \E count \in 1..MaxConsume : ConsumeQuota(count)
  \/ ResetCache
  \/ \E b \in Books : ProcessBook(b)

QuotaSpec == QuotaInit /\ [][QuotaNext]_vars

\* Threads inside process_book at the same time, each past the status test.
\* "if not self.quota_manager.has_quota_available()": has_quota_available() answered True and the thread goes on to
\* consume_quota(1).
WorkerHasQuota(w) ==
  /\ phase = "quota"
  /\ w \in 1..NumDownloadWorkers
  /\ w \notin DOMAIN download_workers
  /\ has_quota_available
  /\ download_workers' = [x \in DOMAIN download_workers \cup {w} |->
                            IF x = w THEN [pc |-> "consume_check", loaded |-> 0]
                            ELSE download_workers[x]]
  /\ UNCHANGED <<storeVars, schedulerVars, _cached_quota, last_call, searchVars>>

\* consume_quota, "if self._cached_quota.remaining_downloads >= count": the
\* thread goes on to the decrement, or returns False and leaves process_book
\* through handle_quota_exhausted.
WorkerConsumeCheck(w) ==
  /\ w \in DOMAIN download_workers
  /\ download_workers[w].pc = "consume_check"
  /\ download_workers' =
       IF consume_quota(_cached_quota, 1).result
         THEN [download_workers EXCEPT ![w].pc = "consume_load"]
         ELSE [x \in DOMAIN download_workers \ {w} |-> download_workers[x]]
  /\ UNCHANGED <<storeVars, schedulerVars, _cached_quota, last_call, searchVars>>

\* consume_quota, "remaining_downloads -= count": the attribute is read ...
WorkerConsumeLoad(w) ==
  /\ w \in DOMAIN download_workers
  /\ download_workers[w].pc = "consume_load"
  /\ download_workers' = [download_workers EXCEPT
                            ![w] = [pc |-> "consume_store",
                                    loaded |-> _cached_quota.remaining_downloads]]
  /\ UNCHANGED <<storeVars, schedulerVars, _cached_quota, last_call, searchVars>>

\* ... and written back one lower; consume_quota returns True and the thread
\* leaves for the download.
WorkerConsumeStore(w) ==
  /\ w \in DOMAIN download_workers
  /\ download_workers[w].pc = "consume_store"
  /\ _cached_quota' = [_cached_quota EXCEPT
                         !.remaining_downloads = download_workers[w].loaded - 1]
  /\ download_workers' = [x \in DOMAIN download_workers \ {w} |-> download_workers[x]]
  /\ UNCHANGED <<storeVars, schedulerVars, last_call, searchVars>>

\* The threads and the first fetch of the quota, within one lifetime of the
\* cache (shorter than cache_minutes, so the fetched quota is not replaced).
QuotaRaceNext ==
  \/ \E remaining \in 0..MaxRemaining : GetCurrentQuota(remaining)
  \/ \E w \in 1..NumDownloadWorkers : WorkerHasQuota(w)
  \/ \E w \in DOMAIN download_workers : WorkerConsumeCheck(w)
  \/ \E w \in DOMAIN download_workers : WorkerConsumeLoad(w)
  \/ \E w \in DOMAIN download_workers : WorkerConsumeStore(w)

QuotaRaceSpec == QuotaInit /\ [][QuotaRaceNext]_vars

\* ------------------------------------------------------ scheduler: stop
\* TaskScheduler.stop, called by stop_pipeline at the end of run_once (also
\* when the wait for completion times out) and when the daemon is
\* interrupted: _running is cleared and the dispatcher thread is joined,
\* every task in the queue is marked cancelled, the queue and the active
\* map are cleared.  Handler threads are not joined; they run on.
Stop ==
  /\ scheduler_running
  /\ tasks' = [t \in DOMAIN tasks |->
                 IF \E i \in 1..Len(task_queue) : task_queue[i].id = t
                   THEN [tasks[t] EXCEPT !.status = "cancelled"] ELSE tasks[t]]
  /\ task_queue' = <<>>
  /\ active_tasks' = {}
  /\ phase' = "stopped"
  /\ UNCHANGED <<storeVars, stageVars, handlers, max_concurrent_tasks, callVars, searchVars, pmVars,
                 faults, syncs>>

\* a run over a wish list of at most NumStopBooks items
StopInit == Init /\ Len(bookStatus) <= NumStopBooks

\* a run that may be stopped at any moment the scheduler runs
StopNext == Next \/ Stop

StopSpec == StopInit /\ [][StopNext]_vars

\* -------------------------------------------- reconciler on a given store
\* A call of TaskScheduler.schedule_task(book_id, stage) with the default
\* delay: the row is created and pushed when the item's committed status is
\* acceptable for the stage; a rejected call changes nothing.
ScheduleTask(b, g) ==
  /\ phase = "ops"
  /\ Len(tasks) < MaxCleanupTasks
  /\ LET sch == schedule_task(SchedState, bookStatus[b], b, g, 0)
     IN  tasks' = sch.tasks /\ task_queue' = sch.queue
  /\ UNCHANGED <<storeVars, stageVars, active_tasks, handlers, envVars>>

\* number of rows of `rows` that cleanup_mismatched_tasks cancels
cleaned_count(rows, status) ==
  Cardinality({t \in DOMAIN rows : should_cleanup(rows[t], status[rows[t].book])})

\* A call of BookStateManager.cleanup_mismatched_tasks; it returns the
\* number of rows it cancelled.
CleanupMismatchedTasks ==
  /\ phase = "ops"
  /\ tasks' = cleanup_mismatched_tasks(tasks, bookStatus)
  /\ last_call' = [op |-> "cleanup_mismatched_tasks",
                   count |-> cleaned_count(tasks, bookStatus), result |-> "count"]
  /\ UNCHANGED <<storeVars, stageVars, task_queue, active_tasks, handlers,
                 max_concurrent_tasks, phase, faults, syncs, pmVars, download_workers, searchVars>>

CleanupNext ==
  \/ \E b \in Books, g \in Stages : ScheduleTask(b, g)
  \/ CleanupMismatchedTasks

CleanupSpec == OpsInit /\ [][CleanupNext]_vars

\* ---------------------------------------------------- reset_stuck_statuses
\* reset_stuck_statuses: stuck_statuses and reset_mapping
reset_mapping ==
  [s \in {"DETAIL_FETCHING", "SEARCH_ACTIVE", "DOWNLOAD_ACTIVE", "UPLOAD_ACTIVE"} |->
    CASE s = "DETAIL_FETCHING" -> "NEW"
      [] s = "SEARCH_ACTIVE" -> "SEARCH_QUEUED"
      [] s = "DOWNLOAD_ACTIVE" -> "DOWNLOAD_QUEUED"
      [] s = "UPLOAD_ACTIVE" -> "UPLOAD_QUEUED"]

\* reset_stuck_statuses: the query result, given the set `stale` of items
\* whose updated_at is older than the timeout
stuck_books(status, stale) == {b \in stale : status[b] \in DOMAIN reset_mapping}

\* A call of BookStateManager.reset_stuck_statuses(timeout_minutes) while the
\* items of `stale` are older than the timeout and the query lists `first`
\* first.  The "return reset_count" stands inside the loop over the items to
\* reset: the first item is reset and the call returns; with nothing to
\* reset the loop body never runs and the call returns None.
ResetStuckStatuses(stale, first) ==
  /\ phase = "ops"
  /\ LET stuck == stuck_books(bookStatus, stale)
     IN  IF stuck = {}
           THEN /\ UNCHANGED <<bookStatus, history>>
                /\ last_call' = [op |-> "reset_stuck_statuses", count |-> 0, result |-> "None"]
           ELSE /\ first \in stuck
                /\ LET st == transition_status(StoreState, first, reset_mapping[bookStatus[first]])
                   IN  /\ bookStatus' = st.status
                       /\ history' = st.history
                       /\ last_call' = [op |-> "reset_stuck_statuses",
                                        count |-> IF st = StoreState THEN 0 ELSE 1,
                                        result |-> "count"]
  /\ UNCHANGED <<download_queue, stageVars, tasks, task_queue, active_tasks, handlers,
                 max_concurrent_tasks, phase, faults, syncs, pmVars, download_workers, searchVars>>

ResetNext == \E stale \in SUBSET Books, first \in Books : ResetStuckStatuses(stale, first)

ResetSpec == OpsInit /\ [][ResetNext]_vars

\* ------------------------------------------- choice of the search result
\* Match scores in hundredths (0.50, 0.70, 0.75, 0.90) and file formats the
\* search results of an item come with.
MatchScores == {50, 70, 75, 90}
Extensions == {"epub", "mobi", "pdf"}

\* SearchStage.min_match_score (default 0.6), in hundredths
min_match_score == 60

\* the score difference up to which the format decides (0.1), in hundredths
FormatTolerance == 10

\* format_priority.get(extension, 0)
format_priority(extension) ==
  CASE extension = "epub" -> 3
    [] extension \in {"mobi", "azw3"} -> 2
    [] extension = "pdf" -> 1
    [] OTHER -> 0

\* a query that leaves the score condition out
all_available_rows(rows) == {i \in DOMAIN rows : rows[i].is_available}

\* the rows the query of _add_best_match_to_queue selects
qualifying_rows(rows) ==
  {i \in DOMAIN rows : rows[i].is_available /\ rows[i].match_score >= min_match_score}

\* The orders in which the query may return them: by match score, highest
\* first; rows of equal score come in an order the database picks.
query_orders(rows) ==
  LET q == qualifying_rows(rows)
      n == Cardinality(q)
  IN  {o \in [1..n -> q] :
         /\ \A i, j \in 1..n : i # j => o[i] # o[j]
         /\ \A i \in 1..n : i < n => rows[o[i]].match_score >= rows[o[i + 1]].match_score}

\* the loop over zlibrary_books[:3], from position k on, with best_candidate
\* so far; the result is the index of the row the queue entry is made for
RECURSIVE best_candidate_from(_, _, _, _)
best_candidate_from(rows, o, k, best_candidate) ==
  IF k > Len(o) \/ k > 3 THEN best_candidate
  ELSE IF /\ rows[o[1]].match_score - rows[o[k]].match_score <= FormatTolerance
          /\ format_priority(rows[o[k]].extension)
               > format_priority(rows[best_candidate].extension)
    THEN best_candidate_from(rows, o, k + 1, o[k])
  ELSE best_candidate_from(rows, o, k + 1, best_candidate)

\* _save_search_results: one more result of the search is stored for the item
SaveSearchResult(b, score, extension) ==
  /\ phase = "ops"
  /\ queue_item = 0
  /\ Len(zlibrary_books) < MaxResults
  /\ zlibrary_books' = Append(zlibrary_books,
       [match_score |-> score, extension |-> extension, is_available |-> TRUE])
  /\ UNCHANGED <<storeVars, schedulerVars, _cached_quota, callVars, queue_item, in_process>>

\* SearchStage._add_best_match_to_queue(book): an item that has a queue entry
\* keeps it; with no qualifying row the call returns False; otherwise the
\* entry is made for the best candidate.
AddBestMatchToQueue(b, o) ==
  /\ phase = "ops"
  /\ o \in query_orders(zlibrary_books)
  /\ IF download_queue[b] # "none"
       THEN /\ last_call' = [op |-> "_add_best_match_to_queue", count |-> 0,
                             result |-> returned(TRUE)]
            /\ UNCHANGED <<download_queue, queue_item>>
     ELSE IF qualifying_rows(zlibrary_books) = {}
       THEN /\ last_call' = [op |-> "_add_best_match_to_queue", count |-> 0,
                             result |-> returned(FALSE)]
            /\ UNCHANGED <<download_queue, queue_item>>
     ELSE /\ queue_item' = best_candidate_from(zlibrary_books, o, 1, o[1])
          /\ download_queue' = [download_queue EXCEPT ![b] = "queued"]
          /\ last_call' = [op |-> "_add_best_match_to_queue", count |-> 1,
                           result |-> returned(TRUE)]
  /\ UNCHANGED <<bookStatus, history, schedulerVars, _cached_quota,
                 download_workers, zlibrary_books, in_process>>

\* the search of one item that is in SEARCH_ACTIVE, as the handler finds it
SearchQueueInit ==
  /\ OpsInit
  /\ Len(bookStatus) <= NumSearchBooks
  /\ \A b \in Books : bookStatus[b] = "SEARCH_ACTIVE"

SearchQueueNext ==
  \/ \E b \in Books, score \in MatchScores, extension \in Extensions :
       SaveSearchResult(b, score, extension)
  \/ \E b \in Books, o \in query_orders(zlibrary_books) : AddBestMatchToQueue(b, o)

SearchQueueSpec == SearchQueueInit /\ [][SearchQueueNext]_vars

\* ----------------------------------------------------------------- claims

\* C1 (single-flight): for every (item, stage) at most one task row has
\* status queued or active.
C1_SingleFlight ==
  \A b \in Books, g \in Stages :
    Cardinality({t \in DOMAIN tasks :
                   /\ tasks[t].book = b /\ tasks[t].stage = g
                   /\ tasks[t].status \in {"queued", "active"}}) <= 1

\* a handler thread that is inside its stage's execution
executing(t) == handlers[t].pc \in {"processing", "processed", "matched"}

\* C2 (no concurrent execution): no two handler threads execute the same
\* stage for the same item at the same time.
C2_NoConcurrentStageExecution ==
  \A t1, t2 \in DOMAIN handlers :
    (t1 # t2 /\ executing(t1) /\ executing(t2))
      => ~(tasks[t1].book = tasks[t2].book /\ tasks[t1].stage = tasks[t2].stage)

queued_ids(q) == {q[i].id : i \in 1..Len(q)}

\* C3 (no task lost): a task leaves the heap only by being handed to its
\* handler or by being cancelled; a due task that is not dispatched stays on
\* the heap.
C3_NoTaskLost ==
  [][\A t \in queued_ids(task_queue) :
       t \notin queued_ids(task_queue')
         => (t \in DOMAIN handlers' \/ tasks'[t].status = "cancelled")]_vars

\* C4 (concurrency bound): the active-task map never holds more than
\* max_concurrent_tasks entries.
C4_ConcurrencyBound == Cardinality(active_tasks) <= max_concurrent_tasks

\* C4 witness: every slot is taken and a tick had more due tasks than slots
\* (a row is still queued although its task is no longer on the heap)
C4_Witness ==
  /\ Cardinality(active_tasks) = max_concurrent_tasks
  /\ \E t \in DOMAIN tasks :
       tasks[t].status = "queued" /\ t \notin queued_ids(task_queue)


\* C5 (edge legality): every history entry is an edge of VALID_TRANSITIONS,
\* and no entry leaves COMPLETED or SKIPPED_EXISTS.
C5_EdgeLegality ==
  \A b \in Books : \A i \in 1..Len(history[b]) :
    /\ is_valid_transition(history[b][i][1], history[b][i][2])
    /\ history[b][i][1] \notin {"COMPLETED", "SKIPPED_EXISTS"}

\* C6 (strictly terminal): once the committed status of an item is COMPLETED
\* or SKIPPED_EXISTS, no step changes it.
C6_TerminalIsFinal ==
  [][\A b \in Books :
       bookStatus[b] \in {"COMPLETED", "SKIPPED_EXISTS"}
         => bookStatus'[b] = bookStatus[b]]_vars

\* the history entries a step adds for item b
added_history(b) == SubSeq(history'[b], Len(history[b]) + 1, Len(history'[b]))

\* C7 (atomic transition): a step that changes the committed status of an
\* item adds history entries for it, exactly one of them with the status
\* written as new_status; a step that adds history entries leaves the item
\* in the new_status of the last one; entries are never removed.
C7_AtomicTransition ==
  [][\A b \in Books :
       /\ Len(history'[b]) >= Len(history[b])
       /\ SubSeq(history'[b], 1, Len(history[b])) = history[b]
       /\ bookStatus'[b] # bookStatus[b] => added_history(b) # <<>>
       /\ added_history(b) # <<>> =>
            /\ added_history(b)[Len(added_history(b))][2] = bookStatus'[b]
            /\ Cardinality({i \in 1..Len(added_history(b)) :
                              added_history(b)[i][2] = bookStatus'[b]}) = 1]_vars

\* the history of section "happy path"
HappyPathHistory ==
  <<<<"NEW", "DETAIL_FETCHING">>, <<"DETAIL_FETCHING", "DETAIL_COMPLETE">>,
    <<"DETAIL_COMPLETE", "SEARCH_QUEUED">>, <<"SEARCH_QUEUED", "SEARCH_ACTIVE">>,
    <<"SEARCH_ACTIVE", "SEARCH_COMPLETE">>, <<"SEARCH_COMPLETE", "DOWNLOAD_QUEUED">>,
    <<"DOWNLOAD_QUEUED", "DOWNLOAD_ACTIVE">>, <<"DOWNLOAD_ACTIVE", "DOWNLOAD_COMPLETE">>,
    <<"DOWNLOAD_COMPLETE", "UPLOAD_QUEUED">>, <<"UPLOAD_QUEUED", "UPLOAD_ACTIVE">>,
    <<"UPLOAD_ACTIVE", "UPLOAD_COMPLETE">>, <<"UPLOAD_COMPLETE", "COMPLETED">>>>

\* the item was NEW when its first history entry of this run was written
started_new(b) == history[b] # <<>> /\ history[b][1][1] = "NEW"

\* C8 (happy path): when nothing fails, an item that started in NEW and has
\* reached COMPLETED has exactly the happy-path history.
C8_HappyPath ==
  \A b \in Books :
    (faults = 0 /\ started_new(b) /\ bookStatus[b] = "COMPLETED")
      => history[b] = HappyPathHistory

\* the row schedule_task creates for (book, stage)
new_row(b, g) ==
  [book |-> b, stage |-> g, status |-> "queued", retry_count |-> 0,
   max_retries |-> DefaultMaxRetries]

\* C9 (next-stage scheduling): the step in which a handler that committed
\* DETAIL_COMPLETE, SEARCH_COMPLETE or DOWNLOAD_COMPLETE returns adds exactly
\* one task, for the item's next stage.
C9_OneNextStageTask ==
  [][\A t \in DOMAIN handlers :
       (/\ handlers[t].pc = "committed"
        /\ t \notin DOMAIN handlers'
        /\ handlers[t].view \in DOMAIN next_stage_mapping)
         => /\ Len(tasks') = Len(tasks) + 1
            /\ tasks'[Len(tasks')] =
                 new_row(tasks[t].book, next_stage_mapping[handlers[t].view])]_vars

\* C10 (permanent failure): in the step in which a task row becomes failed,
\* the item is left with committed status FAILED_PERMANENT.
C10_FailedTaskFailsItem ==
  [][\A t \in DOMAIN tasks :
       (tasks[t].status # "failed" /\ tasks'[t].status = "failed")
         => bookStatus'[tasks[t].book] = "FAILED_PERMANENT"]_vars

\* the wait with which task t sits on heap q
wait_of(q, t) == (CHOOSE e \in {q[i] : i \in 1..Len(q)} : e.id = t).wait

\* C11 (transient network retry): a download attempt that ends with the task
\* back on the heap leaves it there with a wait of 30 s after the first
\* failure and 60 s after the second; and when a download task that has
\* already been retried is handed to its handler while the item is still
\* DOWNLOAD_QUEUED and no new failure is injected, the attempt goes on to the
\* transfer.
C11_NetworkRetry ==
  [][\A t \in DOMAIN handlers :
       tasks[t].stage = "download" =>
         /\ (handlers[t].pc = "processing" /\ t \in queued_ids(task_queue'))
              => /\ tasks'[t].retry_count = 1 => wait_of(task_queue', t) = 30
                 /\ tasks'[t].retry_count = 2 => wait_of(task_queue', t) = 60
         /\ (/\ handlers[t].pc = "start"
             /\ tasks[t].retry_count >= 1
             /\ bookStatus[tasks[t].book] = "DOWNLOAD_QUEUED"
             /\ faults' = faults
             /\ (t \notin DOMAIN handlers' \/ handlers'[t] # handlers[t]))
              => (t \in DOMAIN handlers' /\ handlers'[t].pc = "processing")]_vars

\* C12 (crash recovery): the restart step (recover_from_crash, then
\* cleanup_mismatched_tasks) taken with an item in DOWNLOAD_ACTIVE whose
\* download task row is active leaves the item in DOWNLOAD_QUEUED and that
\* row cancelled.
C12_CrashRecovery ==
  [][(phase = "init" /\ phase' # "init") =>
       \A t \in DOMAIN tasks :
         (/\ tasks[t].stage = "download" /\ tasks[t].status = "active"
          /\ bookStatus[tasks[t].book] = "DOWNLOAD_ACTIVE")
           => /\ bookStatus'[tasks[t].book] = "DOWNLOAD_QUEUED"
              /\ tasks'[t].status = "cancelled"]_vars

\* C13 (retry bound), as stated: a failed task that has been through
\* retryable failures has retry_count <= max_retries.
C13_RetryBound ==
  \A t \in DOMAIN tasks :
    (tasks[t].status = "failed" /\ tasks[t].retry_count >= 1)
      => tasks[t].retry_count <= tasks[t].max_retries

\* C13 (retry bound), amended: the counter counts failures, not retries.  A
\* task is put back on the heap only with retry_count <= max_retries, and a
\* failed task has retry_count <= max_retries + 1.
C13_RetryBoundAmended ==
  \A t \in DOMAIN tasks :
    /\ tasks[t].status \in {"queued", "active"}
         => tasks[t].retry_count <= tasks[t].max_retries
    /\ tasks[t].status = "failed"
         => tasks[t].retry_count <= tasks[t].max_retries + 1

\* C13 witness: a task has failed by running out of retries
C13_Witness ==
  \E t \in DOMAIN tasks :
    tasks[t].status = "failed" /\ tasks[t].retry_count = tasks[t].max_retries + 1

\* C14 (pause): in a step that starts and ends with stage g in the
\* paused-stages map, no task of stage g is handed to a handler thread by the
\* scheduler and no item is submitted to the pool for stage g by the pipeline
\* manager.
C14_PausedStageNotDispatched ==
  [][\A g \in Stages :
       (_paused_stages[g] # "" /\ _paused_stages'[g] # "") =>
         /\ \A t \in DOMAIN handlers' \ DOMAIN handlers : tasks[t].stage # g
         /\ \A b \in DOMAIN _active_tasks' :
              (b \notin DOMAIN _active_tasks \/ _active_tasks[b] # _active_tasks'[b])
                => _active_tasks'[b] # g]_vars

\* the download stage is paused because the quota check found no quota
paused_for_quota == _paused_stages["download"] = "quota"

\* C15 (quota recovery): whenever the download stage is paused for quota
\* while the quota manager reports quota available, the pause is eventually
\* removed (or the quota manager stops reporting quota available).
C15_QuotaRecovery ==
  (paused_for_quota /\ has_quota_available)
    ~> (~paused_for_quota \/ ~has_quota_available)

\* C16 (quota resume sweep): a call of resume_quota_exhausted_books that finds
\* quota available (it moves an item out of SEARCH_COMPLETE_QUOTA_EXHAUSTED)
\* leaves every item that was in SEARCH_COMPLETE_QUOTA_EXHAUSTED in
\* DOWNLOAD_QUEUED and puts a new queued download task for each of them on
\* the scheduler's heap.
C16_ResumeReschedules ==
  [][(\E b \in Books : /\ bookStatus[b] = "SEARCH_COMPLETE_QUOTA_EXHAUSTED"
                       /\ bookStatus'[b] # bookStatus[b])
       => \A b \in Books :
            bookStatus[b] = "SEARCH_COMPLETE_QUOTA_EXHAUSTED"
              => /\ bookStatus'[b] = "DOWNLOAD_QUEUED"
                 /\ \E t \in queued_ids(task_queue') \ queued_ids(task_queue) :
                      /\ tasks'[t].book = b
                      /\ tasks'[t].stage = "download"
                      /\ tasks'[t].status = "queued"]_vars

\* a step in which the handler thread of download task t, inside process(),
\* was told by the downloader that the limit is exhausted: the thread ends
\* and the step writes a rollback entry to some item's history
limit_exhausted_in(t) ==
  /\ tasks[t].stage = "download"
  /\ handlers[t].pc = "processing"
  /\ t \notin DOMAIN handlers'
  /\ \E b \in Books : \E i \in 1..Len(added_history(b)) :
       /\ added_history(b)[i][1] \in rollback_statuses
       /\ added_history(b)[i][2] = "SEARCH_COMPLETE"

\* C17 (download limit exhausted): when the downloader signals the exhausted
\* limit while a download task is processed, (a) every item in
\* DOWNLOAD_QUEUED, DOWNLOAD_ACTIVE or DOWNLOAD_FAILED is rolled back to
\* SEARCH_COMPLETE, (b) no download task is left queued on the scheduler's
\* heap, those that were there are cancelled, and (c) the download stage is
\* paused.
C17_DownloadLimitExhausted ==
  [][\A t \in DOMAIN handlers :
       limit_exhausted_in(t) =>
         /\ \A b \in Books : bookStatus[b] \in rollback_statuses
                               => bookStatus'[b] = "SEARCH_COMPLETE"
         /\ \A x \in DOMAIN tasks' :
              tasks'[x].stage = "download" => x \notin queued_ids(task_queue')
         /\ \A x \in queued_ids(task_queue) :
              tasks[x].stage = "download" => tasks'[x].status = "cancelled"
         /\ _paused_stages'["download"] # ""]_vars

\* a step in which the pool's worker for item b ran the detail stage and
\* process() raised AuthError: the worker ends and the store is left as
\* execute leaves it for that outcome
auth_error_in(b) ==
  /\ b \in DOMAIN _active_tasks
  /\ _active_tasks[b] = "data_collection"
  /\ can_process("data_collection", b)
  /\ b \notin DOMAIN _active_tasks'
  /\ faults' = faults + 1
  /\ bookStatus' = execute("data_collection", b, "auth").store.status
  /\ history' = execute("data_collection", b, "auth").store.history

\* C18 (auth lockout): when a stage's process() raises AuthError under the
\* pipeline manager, the manager pauses that stage with the error as the
\* reason and the item is not marked FAILED_PERMANENT.
C18_AuthErrorPausesStage ==
  [][\A b \in Books :
       auth_error_in(b) =>
         /\ _paused_stages'["data_collection"] = "auth"
         /\ bookStatus'[b] # "FAILED_PERMANENT"]_vars

\* a step in which the handler thread of task t found its item outside the
\* stage's acceptable statuses (execute_with_session raised status_mismatch)
status_mismatch_in(t) ==
  /\ handlers[t].pc = "start"
  /\ ~can_process(tasks[t].stage, tasks[t].book)
  /\ t \notin DOMAIN handlers'

\* C19 (status mismatch): when a stage execution finds the item's status
\* outside the stage's acceptable set, the task is cancelled and not put back
\* on the heap, and the item's status and history are left as they were.
C19_StatusMismatchCancels ==
  [][\A t \in DOMAIN handlers :
       status_mismatch_in(t) =>
         /\ tasks'[t].status = "cancelled"
         /\ t \notin queued_ids(task_queue')
         /\ tasks'[t].retry_count = tasks[t].retry_count
         /\ bookStatus'[tasks[t].book] = bookStatus[tasks[t].book]
         /\ history'[tasks[t].book] = history[tasks[t].book]]_vars

\* the task rows a step adds for the download stage of item b
new_download_tasks(b) ==
  {x \in DOMAIN tasks' \ DOMAIN tasks :
     tasks'[x].book = b /\ tasks'[x].stage = "download"}

\* item b has been in SKIPPED_EXISTS, or a search handler holds a library
\* match for it
library_matched(b) ==
  \/ \E i \in 1..Len(history[b]) : history[b][i][2] = "SKIPPED_EXISTS"
  \/ \E t \in DOMAIN handlers : tasks[t].book = b /\ handlers[t].pc = "matched"

\* C20 (library match): when the library probe of the search stage returned a
\* match for an item, the search execution leaves the item in SKIPPED_EXISTS,
\* and no step ever schedules a download task for such an item.
C20_LibraryMatchSkips ==
  [][/\ \A t \in DOMAIN handlers :
          (handlers[t].pc = "matched"
           /\ (t \notin DOMAIN handlers' \/ handlers'[t].pc # "matched"))
            => bookStatus'[tasks[t].book] = "SKIPPED_EXISTS"
     /\ \A b \in Books : library_matched(b) => new_download_tasks(b) = {}]_vars

\* a step in which the search handler thread of task t ends because the
\* remote search returned nothing (process() raised ResourceNotFoundError):
\* the failure is not counted against the task's retry budget
search_not_found_in(t) ==
  /\ tasks[t].stage = "search"
  /\ handlers[t].pc = "processing"
  /\ can_process("search", tasks[t].book)
  /\ t \notin DOMAIN handlers'
  /\ faults' = faults + 1
  /\ tasks'[t].retry_count = tasks[t].retry_count

\* C21 (no remote results): when the search stage raises
\* ResourceNotFoundError for an item, the item ends in SEARCH_NO_RESULTS and
\* the task is not retried.
C21_NotFoundEndsNoResults ==
  [][\A t \in DOMAIN handlers :
       search_not_found_in(t) =>
         /\ bookStatus'[tasks[t].book] = "SEARCH_NO_RESULTS"
         /\ t \notin queued_ids(task_queue')
         /\ tasks'[t].status = "failed"]_vars

\* C22 (idempotent reconciler): on every store, applying recover_from_crash
\* twice in succession leaves the same statuses and the same history as
\* applying it once.
C22_IdempotentReconciler ==
  recover_from_crash(recover_from_crash(StoreState, 1), 1)
    = recover_from_crash(StoreState, 1)

\* C22 witness: recover_from_crash has reset an item (the reset is the last
\* entry of its history), and a second application leaves the store as it is
C22_Witness ==
  /\ \E b \in Books :
       /\ history[b] # <<>>
       /\ history[b][Len(history[b])][1] \in DOMAIN recovery_mapping
       /\ history[b][Len(history[b])][2] = recovery_mapping[history[b][Len(history[b])][1]]
       /\ bookStatus[b] = history[b][Len(history[b])][2]
  /\ recover_from_crash(StoreState, 1) = StoreState

\* C23 (quota non-negativity): the cached remaining_downloads is never
\* negative, also when several threads inside process_book call
\* has_quota_available and consume_quota at the same time.
C23_QuotaNonNegative ==
  _cached_quota.cached => _cached_quota.remaining_downloads >= 0

\* C24 (no quota, nothing consumed): a run of the quota-aware download
\* handler for an item the download stage accepts, while the quota manager
\* reports no quota, leaves the item in SEARCH_COMPLETE_QUOTA_EXHAUSTED,
\* returns success and leaves the cached quota as it was.
C24_NoQuotaSkipsDownload ==
  [][\A b \in Books :
       (/\ ProcessBook(b)
        /\ bookStatus[b] \in stage_acceptable_statuses["download"]
        /\ ~has_quota_available) =>
         /\ bookStatus'[b] = "SEARCH_COMPLETE_QUOTA_EXHAUSTED"
         /\ last_call'.result = "True"
         /\ _cached_quota' = _cached_quota]_vars

\* C25 (consume_quota): a call of consume_quota(n) returns true exactly when
\* the cache is populated and its remaining count is at least n, and then
\* the remaining count is n lower; otherwise it returns false and the cache
\* is left as it was.
C25_ConsumeQuota ==
  [][\A n \in 1..MaxConsume :
       ConsumeQuota(n) =>
         IF _cached_quota.cached /\ _cached_quota.remaining_downloads >= n
           THEN /\ last_call'.result = "True"
                /\ _cached_quota'.remaining_downloads = _cached_quota.remaining_downloads - n
                /\ _cached_quota'.cached = _cached_quota.cached
                /\ _cached_quota'.expired = _cached_quota.expired
           ELSE /\ last_call'.result = "False"
                /\ _cached_quota' = _cached_quota]_vars

\* C25 witness: consume_quota(MaxConsume) has returned True on a populated
\* cache and left it MaxConsume units lower
C25_Witness ==
  /\ last_call.op = "consume_quota"
  /\ last_call.result = "True"
  /\ _cached_quota.cached
  /\ _cached_quota.remaining_downloads = MaxRemaining - last_call.count
  /\ last_call.count = MaxConsume

\* C26 (has_quota_available on an expired cache): a call of
\* has_quota_available made while the cached quota is older than the cache
\* lifetime refreshes the quota, so that afterwards the cache is no longer
\* expired and the answer is the one the refreshed cache gives.
C26_ExpiredCacheRefreshed ==
  [][(HasQuotaAvailable /\ _cached_quota.cached /\ is_expired(_cached_quota))
       => /\ ~is_expired(_cached_quota')
          /\ last_call'.result = returned(_cached_quota'.remaining_downloads > 0)]_vars

\* C27 (stop of the scheduler): once TaskScheduler.stop has returned, no
\* task waits in the scheduler's queue in status queued or active, also
\* when a handler that was in flight at the stop fails afterwards and asks
\* for a retry.
C27_StopLeavesNoQueuedTask ==
  phase = "stopped" =>
    \A i \in 1..Len(task_queue) : tasks[task_queue[i].id].status \notin {"queued", "active"}

\* C28 (invalid transition request): a call of transition_status whose
\* target is not an allowed edge from the item's current status returns
\* False and leaves every item's status and history as they were.
C28_InvalidEdgeRefused ==
  [][\A b \in Books, to_status \in BookStatus :
       (~is_valid_transition(bookStatus[b], to_status) /\ TransitionStatus(b, to_status))
         => /\ last_call'.result = "False"
            /\ bookStatus' = bookStatus
            /\ history' = history]_vars

\* C28 witness: transition_status has just refused a request on a store in
\* which no item has changed since the run began
C28_Witness ==
  /\ last_call.op = "transition_status"
  /\ last_call.result = "False"
  /\ \A b \in Books : history[b] = <<>>

\* C29 (non-retryable errors): when the search handler of a task fails with
\* an error whose retryable attribute is false (ResourceNotFoundError, or the
\* ProcessingError the search stage raises with retryable=False after an
\* authentication failure), the task is marked failed and is not put back
\* on the scheduler's queue.
C29_NonRetryableNotRequeued ==
  [][\A t \in DOMAIN handlers : \A o \in {"not_found", "login"} :
       (/\ handlers[t].pc = "processing"
        /\ can_process("search", tasks[t].book)
        /\ SearchProcess(t, o))
         => /\ tasks'[t].status = "failed"
            /\ t \notin queued_ids(task_queue')]_vars

\* C30 (can_process agrees with the dispatcher): when the handler of a
\* dispatched task starts while the item is in a status the scheduler
\* accepts for the task's stage, the stage's can_process does not reject the
\* item because of its status: the handler goes on to process(), unless the
\* remote limit check fails or the item has no queued download row.
C30_CanProcessAcceptsDispatched ==
  [][\A t \in DOMAIN handlers :
       (/\ handlers[t].pc = "start"
        /\ HandlerBegin(t)
        /\ _can_schedule_for_stage(bookStatus[tasks[t].book], tasks[t].stage))
         => \/ (t \in DOMAIN handlers' /\ handlers'[t].pc = "processing")
            \/ faults' = faults + 1
            \/ (tasks[t].stage = "download" /\ download_queue[tasks[t].book] # "queued")]_vars

\* C31 (cleanup of mismatched tasks): a pass of cleanup_mismatched_tasks
\* cancels a queued or active task exactly when the dispatcher would not
\* accept the item's status for the task's stage; it never cancels a task
\* the dispatcher would accept.
C31_CleanupAgreesWithDispatcher ==
  [][CleanupMismatchedTasks =>
       \A t \in DOMAIN tasks :
         tasks[t].status \in {"queued", "active"} =>
           ((tasks'[t].status = "cancelled")
              <=> ~_can_schedule_for_stage(bookStatus[tasks[t].book], tasks[t].stage))]_vars

\* C32 (reset of stuck statuses): a call of reset_stuck_statuses moves every
\* item that is in DETAIL_FETCHING, SEARCH_ACTIVE, DOWNLOAD_ACTIVE or
\* UPLOAD_ACTIVE and older than the timeout to NEW or to its stage's queued
\* status, leaves the other items alone, and returns how many it reset.
C32_ResetStuckStatuses ==
  [][\A stale \in SUBSET Books, first \in Books :
       ResetStuckStatuses(stale, first) =>
         LET stuck == stuck_books(bookStatus, stale)
         IN  /\ \A b \in stuck : bookStatus'[b] = reset_mapping[bookStatus[b]]
             /\ \A b \in Books \ stuck : bookStatus'[b] = bookStatus[b]
             /\ last_call'.count = Cardinality(stuck)]_vars

\* C33 (any non-terminal status can fail permanently): for an item in any
\* status other than COMPLETED, SKIPPED_EXISTS and FAILED_PERMANENT, a
\* transition request to FAILED_PERMANENT is accepted: transition_status
\* returns True and the item is in FAILED_PERMANENT afterwards.
C33_NonTerminalCanFail ==
  [][\A b \in Books :
       (/\ bookStatus[b] \notin {"COMPLETED", "SKIPPED_EXISTS", "FAILED_PERMANENT"}
        /\ TransitionStatus(b, "FAILED_PERMANENT"))
         => /\ last_call'.result = "True"
            /\ bookStatus'[b] = "FAILED_PERMANENT"]_vars

\* C34 (quota refresh failures do not pause): while the only quota refresh
\* so far has failed and nothing is cached, the pipeline manager's quota
\* gate counts the quota as available: the download stage is not paused for
\* quota.
C34_FailedRefreshAssumesQuota ==
  (last_call.result = "NetworkError" /\ ~_cached_quota.cached) => ~paused_for_quota


C36_SearchStatusFromOwnResults ==
  [][\A t \in DOMAIN handlers :
       (/\ tasks[t].stage = "search"
        /\ handlers[t].pc \in {"matched", "processed"}
        /\ t \in DOMAIN handlers' /\ handlers'[t].pc = "committed")
       => LET b == tasks[t].book
          IN  /\ handlers[t].pc = "matched" => bookStatus'[b] = "SKIPPED_EXISTS"
              /\ handlers[t].pc = "processed" =>
                   bookStatus'[b] \in {"SEARCH_COMPLETE", "SEARCH_NO_RESULTS"}
              /\ (handlers[t].pc = "processed" /\ download_queue[b] = "none") =>
                   bookStatus'[b] = "SEARCH_NO_RESULTS"]_vars


\* C37 (periodic recovery and live handlers): a pass of the state monitor
\* leaves the status of every item alone whose stage handler is executing
\* in a worker thread of this process, be it a handler thread of the task
\* scheduler or a pool worker of the pipeline manager.
C37_RecoveryLeavesLiveHandlers ==
  [][StateMonitor =>
       /\ \A t \in DOMAIN handlers :
            executing(t) => bookStatus'[tasks[t].book] = bookStatus[tasks[t].book]
       /\ \A b \in in_process : bookStatus'[b] = bookStatus[b]]_vars


\* C38 (history is a chain): for every item the committed history entries
\* form a chain, the old status of each entry being the new status of the
\* item's previous entry, whatever the interleaving of stage handlers,
\* reconciler passes and download-limit rollbacks.
C38_HistoryIsChain ==
  \A b \in Books :
    \A k \in 2..Len(history[b]) : history[b][k][1] = history[b][k - 1][2]


\* C39 (finished task rows stay finished): a task row in status completed,
\* failed or cancelled never goes back to queued or active, and no handler is
\* started for it afterwards, also when cleanup_mismatched_tasks cancelled
\* the row while the task was on the scheduler's heap or running.
C39_FinishedTaskStaysFinished ==
  [][\A t \in DOMAIN tasks \cap DOMAIN tasks' :
       tasks[t].status \in {"completed", "failed", "cancelled"} =>
         /\ tasks'[t].status \notin {"queued", "active"}
         /\ (t \notin DOMAIN handlers => t \notin DOMAIN handlers')]_vars


\* C40 (quota is consumed for an attempted transfer only): a call of
\* process_book whose call into the download logic is refused by the
\* stage's state check, before any transfer, leaves the cached remaining
\* count as it was.
C40_RefusedCallKeepsQuota ==
  [][\A b \in Books :
       (ProcessBook(b) /\ ~can_process("download", b))
         => _cached_quota'.remaining_downloads = _cached_quota.remaining_downloads]_vars

====
